---------------------------- MODULE Spec2Model ----------------------------
(***************************************************************************)
(* Model of the financial-metric query processor:                          *)
(*   src/DebugHeader.py              structural inference helpers          *)
(*   src/New_app/query_processor.py  FinancialQueryProcessor               *)
(*                                                                         *)
(* Text is modelled as sequences of one-character strings, so that         *)
(* strip / lower / upper / replace / split act on characters as the        *)
(* Python code does.  A cell value is a tagged record: None, a str or a    *)
(* number.                                                                 *)
(***************************************************************************)
EXTENDS Integers, Sequences, FiniteSets, TLC

VARIABLES wb, sheet_info, primary_sheet, pc, call, result

vars == <<wb, sheet_info, primary_sheet, pc, call, result>>

(***************************************************************************)
(* Bounds of the model.                                                    *)
(***************************************************************************)
\* number of rows below the two header rows of the first sheet
MaxBodyRows == 3
\* the same for the workbooks of the calls on rows and sectors
MaxSectorRows == 4

(***************************************************************************)
(* Python str operations on character sequences.                           *)
(***************************************************************************)
UpperChars == <<"A","B","C","D","E","F","G","H","I","J","K","L","M",
                "N","O","P","Q","R","S","T","U","V","W","X","Y","Z">>
LowerChars == <<"a","b","c","d","e","f","g","h","i","j","k","l","m",
                "n","o","p","q","r","s","t","u","v","w","x","y","z">>
DigitChars == <<"0","1","2","3","4","5","6","7","8","9">>

IsUpperCh(c) == \E i \in 1..26 : UpperChars[i] = c
IsLowerCh(c) == \E i \in 1..26 : LowerChars[i] = c
IsDigitCh(c) == \E i \in 1..10 : DigitChars[i] = c
IsSpaceCh(c) == c = " "

LowerCh(c) == IF IsUpperCh(c)
              THEN LowerChars[CHOOSE i \in 1..26 : UpperChars[i] = c] ELSE c
UpperCh(c) == IF IsLowerCh(c)
              THEN UpperChars[CHOOSE i \in 1..26 : LowerChars[i] = c] ELSE c

\* str.lower(), str.upper()
lower(s) == [i \in 1..Len(s) |-> LowerCh(s[i])]
upper(s) == [i \in 1..Len(s) |-> UpperCh(s[i])]

\* str.strip(): drop leading and trailing whitespace
strip(s) ==
  LET nonsp == {i \in 1..Len(s) : ~IsSpaceCh(s[i])}
  IN IF nonsp = {} THEN <<>>
     ELSE LET a == CHOOSE i \in nonsp : \A j \in nonsp : i <= j
              b == CHOOSE i \in nonsp : \A j \in nonsp : j <= i
          IN SubSeq(s, a, b)

\* str.replace(c, '') for a single character c
RECURSIVE remove_char(_, _)
remove_char(s, c) ==
  IF s = <<>> THEN <<>>
  ELSE IF Head(s) = c THEN remove_char(Tail(s), c)
       ELSE <<Head(s)>> \o remove_char(Tail(s), c)

\* str.replace(c, d) for single characters c, d
replace_char(s, c, d) == [i \in 1..Len(s) |-> IF s[i] = c THEN d ELSE s[i]]

\* sub in s at position i
OccursAt(s, sub, i) ==
  /\ i >= 1
  /\ i + Len(sub) - 1 <= Len(s)
  /\ \A k \in 1..Len(sub) : s[i + k - 1] = sub[k]

\* `sub in s`
contains(s, sub) == \E i \in 1..(Len(s) + 1) : OccursAt(s, sub, i)

\* s.find(sub) as a 1-based index, 0 when absent
find(s, sub) ==
  IF contains(s, sub)
  THEN CHOOSE i \in 1..(Len(s) + 1) :
         OccursAt(s, sub, i) /\ \A j \in 1..(i - 1) : ~OccursAt(s, sub, j)
  ELSE 0

\* s.split(sep) for a non-empty separator: the list of pieces
RECURSIVE split(_, _)
split(s, sep) ==
  LET i == find(s, sep)
  IN IF i = 0 THEN <<s>>
     ELSE <<SubSeq(s, 1, i - 1)>> \o split(SubSeq(s, i + Len(sep), Len(s)), sep)

\* sep.join(parts)
RECURSIVE join(_, _)
join(sep, parts) ==
  IF parts = <<>> THEN <<>>
  ELSE IF Len(parts) = 1 THEN parts[1]
       ELSE parts[1] \o sep \o join(sep, Tail(parts))

Last(seq) == seq[Len(seq)]

\* str(n) for a natural number n
RECURSIVE str_nat(_)
str_nat(n) == IF n < 10 THEN <<DigitChars[n + 1]>>
              ELSE str_nat(n \div 10) \o <<DigitChars[(n % 10) + 1]>>

\* f"{x:.2f}" for the quotient sum/cnt of naturals (cnt > 0): rounded to
\* hundredths, a tie to the even digit.  A tie is a quotient of denominator
\* 8, 40 or 200; below cnt = 40 it has denominator 8 and the float holds it
\* exactly.
fmt2f(sum, cnt) ==
  LET down == (100 * sum) \div cnt
      rest == 2 * ((100 * sum) % cnt)
      h == IF rest > cnt \/ (rest = cnt /\ down % 2 = 1) THEN down + 1 ELSE down
      frac == h % 100
  IN str_nat(h \div 100) \o <<".">> \o
     <<DigitChars[(frac \div 10) + 1], DigitChars[(frac % 10) + 1]>>

(***************************************************************************)
(* Cell values.                                                            *)
(***************************************************************************)
None   == [t |-> "none", s |-> <<>>, n |-> 0]
Str(s) == [t |-> "str",  s |-> s,    n |-> 0]
Num(n) == [t |-> "num",  s |-> <<>>, n |-> n]

\* value in (None, '')
is_blank(v) == v.t = "none" \/ (v.t = "str" /\ v.s = <<>>)
\* isinstance(value, (int, float))
is_number(v) == v.t = "num"
\* isinstance(value, str)
is_str(v) == v.t = "str"
\* bool(value)
truthy(v) == CASE v.t = "none" -> FALSE
               [] v.t = "str"  -> v.s # <<>>
               [] OTHER        -> v.n # 0
\* str(value)
py_str(v) == CASE v.t = "none" -> <<"N","o","n","e">>
               [] v.t = "str"  -> v.s
               [] OTHER        -> str_nat(v.n)

(***************************************************************************)
(* Column letters (openpyxl.utils).                                        *)
(***************************************************************************)
ColLetters == <<"A","B","C","D","E","F">>
get_column_letter(col) == ColLetters[col]
column_index_from_string(letter) ==
  CHOOSE i \in 1..Len(ColLetters) : ColLetters[i] = letter


(***************************************************************************)
(* Sheets.  A sheet is [title, max_row, max_column, cells, merged]: cells  *)
(* is a sequence of rows, each the sequence of the values stored in the    *)
(* file; merged is a set of bounds <<min_col, min_row, max_col, max_row>>. *)
(* openpyxl creates a cell when it is first accessed and max_column is the *)
(* greatest column of a cell that exists, so max_column grows when a cell  *)
(* to the right of the stored ones is read; such a cell holds None.  The   *)
(* workbook wb is the sequence of its sheets, in sheetnames order.         *)
(***************************************************************************)
\* sheet.cell(row=row, column=col).value
cell(sheet, row, col) ==
  IF row \in 1..sheet.max_row /\ col \in 1..Len(sheet.cells[row])
  THEN sheet.cells[row][col] ELSE None

\* DebugHeader.get_merged_parent: the value of the merged range's anchor
get_merged_parent(sheet, row, col) ==
  LET hits == {m \in sheet.merged :
                 m[2] <= row /\ row <= m[4] /\ m[1] <= col /\ col <= m[3]}
  IN IF hits # {}
     THEN LET m == CHOOSE m \in hits : TRUE IN cell(sheet, m[2], m[1])
     ELSE cell(sheet, row, col)

MaxScan == 10

\* DebugHeader.detect_first_nonempty_row
detect_first_nonempty_row(sheet) ==
  LET filled == {i \in 1..MaxScan :
                   \E c \in 1..sheet.max_column : ~is_blank(cell(sheet, i, c))}
  IN IF filled = {} THEN 1
     ELSE CHOOSE i \in filled : \A j \in filled : i <= j

\* DebugHeader.count_filled_header_cells (num_rows = 2)
count_filled_header_cells(sheet, start_row) ==
  Cardinality({rc \in (start_row..(start_row + 1)) \X (1..sheet.max_column) :
                 rc[1] <= sheet.max_row /\ ~is_blank(cell(sheet, rc[1], rc[2]))})

\* DebugHeader.detect_multirow_sheet: index in the workbook of the sheet with
\* the most filled header cells among the first three; max() keeps the first
multirow_index(w) ==
  LET cand == 1..(IF Len(w) < 3 THEN Len(w) ELSE 3)
      cnt(i) == count_filled_header_cells(w[i], detect_first_nonempty_row(w[i]))
  IN CHOOSE i \in cand :
       /\ \A j \in cand : cnt(j) <= cnt(i)
       /\ \A j \in cand : cnt(j) = cnt(i) => i <= j

detect_multirow_sheet(w) == w[multirow_index(w)].title

\* DebugHeader.extract_header_signature: per column, the stripped non-blank
\* texts of the band's rows
extract_header_signature(sheet, rows) ==
  [col \in 1..sheet.max_column |->
     LET RECURSIVE labels(_)
         labels(k) ==
           IF k > Len(rows) THEN <<>>
           ELSE LET v == cell(sheet, rows[k], col)
                IN (IF ~is_blank(v) THEN <<strip(py_str(v))>> ELSE <<>>)
                   \o labels(k + 1)
     IN labels(1)]

\* ascending list of the members of a finite set of integers
RECURSIVE sorted_list(_)
sorted_list(S) ==
  IF S = {} THEN <<>>
  ELSE LET m == CHOOSE x \in S : \A y \in S : x <= y
       IN <<m>> \o sorted_list(S \ {m})

\* set of the elements of a sequence
Range(seq) == {seq[i] : i \in 1..Len(seq)}

\* DebugHeader.find_repeating_headers: range(base[-1] + 1, max_row - 1)
find_repeating_headers(sheet, base_header_rows) ==
  LET base == extract_header_signature(sheet, base_header_rows)
      scan == (Last(base_header_rows) + 1)..(sheet.max_row - 2)
      band(row) == [i \in 1..Len(base_header_rows) |-> row + i - 1]
  IN sorted_list({row \in scan :
                    extract_header_signature(sheet, band(row)) = base})

\* the test of DebugHeader.detect_sectors on one row
is_sector_row(sheet, row) ==
  LET code  == cell(sheet, row, 1)
      b_val == IF sheet.max_column > 1 THEN cell(sheet, row, 2) ELSE None
  IN is_str(code) /\ Len(strip(code.s)) > 4 /\ is_blank(b_val)

\* a variant that goes on past the glossary boundary
detect_sectors_past_glossary(sheet, glossary_start) ==
  LET rows == sorted_list({r \in 1..sheet.max_row : is_sector_row(sheet, r)})
  IN [i \in 1..Len(rows) |->
        [row |-> rows[i], name |-> strip(cell(sheet, rows[i], 1).s)]]

\* DebugHeader.detect_sectors: glossary_start = 0 stands for None
detect_sectors(sheet, glossary_start) ==
  LET stop == IF glossary_start # 0 THEN glossary_start ELSE sheet.max_row + 1
      rows == sorted_list({r \in 1..sheet.max_row :
                             r < stop /\ is_sector_row(sheet, r)})
  IN [i \in 1..Len(rows) |->
        [row |-> rows[i], name |-> strip(cell(sheet, rows[i], 1).s)]]

\* the test of DebugHeader.detect_glossary on one row
is_glossary_row(sheet, row) ==
  LET cols   == 1..sheet.max_column
      filled == Cardinality({c \in cols : ~is_blank(cell(sheet, row, c))})
      colon  == \E c \in cols :
                  is_str(cell(sheet, row, c)) /\ contains(cell(sheet, row, c).s, <<":">>)
  IN colon /\ 0 < filled /\ filled < sheet.max_column

\* a variant that skips no row
detect_glossary_no_skip(sheet, header_rows, repeating_header_rows, sector_rows) ==
  LET hits == {r \in (Last(header_rows) + 1)..sheet.max_row : is_glossary_row(sheet, r)}
  IN IF hits = {} THEN 0 ELSE CHOOSE r \in hits : \A q \in hits : r <= q

\* DebugHeader.detect_glossary: 0 stands for None
detect_glossary(sheet, header_rows, repeating_header_rows, sector_rows) ==
  LET exclude == Range(repeating_header_rows)
                 \cup {r + 1 : r \in Range(repeating_header_rows)}
                 \cup Range(sector_rows)
      hits == {r \in (Last(header_rows) + 1)..sheet.max_row :
                 r \notin exclude /\ is_glossary_row(sheet, r)}
  IN IF hits = {} THEN 0 ELSE CHOOSE r \in hits : \A q \in hits : r <= q

(***************************************************************************)
(* FinancialQueryProcessor._parse_sheets                                   *)
(***************************************************************************)
SepGt == <<" ",">"," ">>
CODE  == <<"C","O","D","E">>

\* lines 61-68: the labels of one column over the header rows, joined later
\* with ' > ' (no label is dropped as a duplicate)
hierarchy(sheet, header_rows, col) ==
  LET RECURSIVE labels(_)
      labels(k) ==
        IF k > Len(header_rows) THEN <<>>
        ELSE LET row == header_rows[k]
                 v   == get_merged_parent(sheet, row, col)
             IN (IF row <= sheet.max_row /\ ~is_blank(v)
                 THEN <<strip(py_str(v))>> ELSE <<>>) \o labels(k + 1)
  IN labels(1)

\* line 72: headers[letter] = ' > '.join(hierarchy) if hierarchy else None
header_of(sheet, header_rows, col) ==
  LET h == hierarchy(sheet, header_rows, col)
  IN IF h = <<>> THEN None ELSE Str(join(SepGt, h))

\* lines 69-74: the columns with a header label equal to 'CODE'
code_columns(sheet, header_rows) ==
  {col \in 1..sheet.max_column :
     \E k \in 1..Len(hierarchy(sheet, header_rows, col)) :
        upper(hierarchy(sheet, header_rows, col)[k]) = CODE}

\* a variant that takes column B for any two or more CODE columns
primary_key_two_or_more(code_cols) ==
  IF Cardinality(code_cols) >= 2 \/ (Cardinality(code_cols) = 1 /\ 2 \in code_cols)
  THEN "B" ELSE "A"

\* lines 76-77
primary_key_col_of(code_cols) ==
  IF Cardinality(code_cols) = 2 \/ (Cardinality(code_cols) = 1 /\ 2 \in code_cols)
  THEN "B" ELSE "A"

\* a variant that forgets the sector rows
data_rows_keep_sectors(header_rows, repeating_headers, sector_rows, glossary_start, max_row) ==
  LET exclude == Range(header_rows) \cup Range(repeating_headers)
                 \cup (IF glossary_start # 0 THEN glossary_start..max_row ELSE {})
  IN sorted_list({r \in (Last(header_rows) + 1)..max_row : r \notin exclude})

\* lines 86-89: exclude_rows and data_rows
data_rows_of(header_rows, repeating_headers, sector_rows, glossary_start, max_row) ==
  LET exclude == Range(header_rows) \cup Range(repeating_headers)
                 \cup Range(sector_rows)
                 \cup (IF glossary_start # 0 THEN glossary_start..max_row ELSE {})
  IN sorted_list({r \in (Last(header_rows) + 1)..max_row : r \notin exclude})

\* lines 52-99: the entry of sheet_info for sheet i of workbook w
parse_sheet(w, i) ==
  LET sheet        == w[i]
      header_start == detect_first_nonempty_row(sheet)
      is_multirow  == sheet.title = detect_multirow_sheet(w)
      header_rows  == IF is_multirow THEN <<header_start, header_start + 1>>
                      ELSE <<header_start>>
      repeating    == find_repeating_headers(sheet, header_rows)
      glossary     == detect_glossary(sheet, header_rows, repeating, <<>>)
      sectors      == detect_sectors(sheet, glossary)
      sector_rows  == [k \in 1..Len(sectors) |-> sectors[k].row]
  IN [sheet           |-> i,
      name            |-> sheet.title,
      headers         |-> [col \in 1..sheet.max_column |->
                             header_of(sheet, header_rows, col)],
      header_rows     |-> header_rows,
      sectors         |-> sectors,
      data_rows       |-> data_rows_of(header_rows, repeating, sector_rows,
                                       glossary, sheet.max_row),
      primary_key_col |-> primary_key_col_of(code_columns(sheet, header_rows))]

\* lines 47-100
_parse_sheets(w) == [i \in 1..Len(w) |-> parse_sheet(w, i)]

\* DebugHeader.detect_sectors, line 83: for every sector found, the cells of
\* its row in columns 1..30 are read
PrintedCells == 30

\* the sheet after detect_sectors has found `sectors` on it
touched_sheet(sheet, sectors) ==
  IF sectors # <<>> /\ sheet.max_column < PrintedCells
  THEN [sheet EXCEPT !.max_column = PrintedCells] ELSE sheet

\* the workbook after _parse_sheets has run on w
touched(w) == [i \in 1..Len(w) |-> touched_sheet(w[i], parse_sheet(w, i).sectors)]

(***************************************************************************)
(* The workbooks of the model.  The first sheet has a two-row header       *)
(* (column A merged over both rows) followed by MaxBodyRows rows, each     *)
(* drawn from a set of row kinds; the second sheet has a one-row header.   *)
(***************************************************************************)
MainTitle  == <<"M","a","i","n">>
OtherTitle == <<"O","t","h","e","r">>

HdrRow1 == <<Str(CODE), Str(<<"P","/","E">>), Str(<<"D","i","v"," ","Y","i","e","l","d">>), Str(<<"P","B","V">>), Str(<<"P","/","E">>), Str(<<"P","B","V">>)>>
HdrRow2 == <<None, Str(<<"D","e","c">>), Str(<<"D","e","c">>), None, Str(<<"S","e","p">>), Str(<<"S","e","p">>)>>

\* company rows
RowABL    == <<Str(<<"A","B","L">>), Num(8), Num(2), Num(1), Num(9), Num(3)>>
RowABLN   == <<Str(<<"A","B","L",".","N","0","0","0","0">>), Num(5), Num(4), Num(2), Num(5), Num(1)>>
RowBOC    == <<Str(<<"B","O","C">>), Num(8), Str(<<"n","/","a">>), None, None, Num(2)>>
Rowcomb   == <<Str(<<"c","o","m","b">>), Num(3), Num(6), Num(3), Num(3), Num(3)>>
\* a row with numbers and no code
RowNoCode == <<None, Num(4), Num(6), Num(1), Num(4), Num(1)>>
\* a sector marker
RowBANKS  == <<Str(<<"B","A","N","K","S">>), None, None, None, None, None>>
\* footnote text, a fully filled row with a colon, an empty row
RowNote   == <<Str(<<"N","o","t","e",":"," ","x">>), None, None, None, None, None>>
RowFull   == <<Str(<<"X",":","Y">>), Num(1), Num(2), Num(3), Num(4), Num(5)>>
RowBlank  == <<None, None, None, None, None, None>>
\* a company with the Div Yield and PBV of ABL and a higher P/E
RowALLI   == <<Str(<<"A","L","L","I">>), Num(9), Num(2), Num(1), Num(9), Num(3)>>
\* a second sector marker
RowMOTORS == <<Str(<<"M","O","T","O","R","S">>), None, None, None, None, None>>

QueryRowKinds == {RowABL, RowABLN, RowBOC, Rowcomb, RowNoCode, RowBANKS}
ParseRowKinds == {RowABL, RowBANKS, RowNote, RowFull, RowBlank, HdrRow1, HdrRow2}
RowsRowKinds  == {RowABL, RowALLI, RowBOC, RowNoCode, RowBANKS, RowMOTORS}

MainSheet(body) ==
  [title      |-> MainTitle,
   max_row    |-> 2 + Len(body),
   max_column |-> 6,
   cells      |-> <<HdrRow1, HdrRow2>> \o body,
   merged     |-> {<<1, 1, 1, 2>>}]

OtherSheet ==
  [title      |-> OtherTitle,
   max_row    |-> 3,
   max_column |-> 2,
   cells      |-> << <<Str(CODE), Str(<<"P","/","E">>)>>,
                     <<Str(<<"A","B","L">>),  Num(7)>>,
                     <<Str(<<"D","I","A","L">>), None>> >>,
   merged     |-> {}]

\* a second sheet whose header row is repeated, with a footnote below it
OtherRepeat ==
  [title      |-> OtherTitle,
   max_row    |-> 4,
   max_column |-> 2,
   cells      |-> << <<Str(CODE), Str(<<"P","/","E">>)>>,
                     <<Str(CODE), Str(<<"P","/","E">>)>>,
                     <<Str(<<"N","o","t","e",":"," ","x">>), None>>,
                     <<Str(<<"A","B","L">>),  Num(7)>> >>,
   merged     |-> {}]

Bodies(kinds) == [1..MaxBodyRows -> kinds]

QueryWorkbooks == {<<MainSheet(b), OtherSheet>> : b \in Bodies(QueryRowKinds)}
ParseWorkbooks ==
  {<<MainSheet(b), o>> : b \in Bodies(ParseRowKinds), o \in {OtherSheet, OtherRepeat}}
RowsWorkbooks  == {<<MainSheet(b), OtherSheet>> : b \in [1..MaxSectorRows -> RowsRowKinds]}

\* workbooks whose first sheet has three columns with varying header labels
\* (two header rows, column A merged over both or not) and one company row
HeaderLabels ==
  {Str(CODE), Str(<<"C","o","d","e">>), Str(<<"P","/","E">>), Str(<<"P","E">>), Str(<<"C",".","P","r","i","c","e">>), Str(<<"D","i","v"," ","Y","i","e","l","d">>), None}
HeaderSecondRows ==
  {<<None, None, None>>, <<None, Str(<<"D","e","c">>), Str(<<"S","e","p">>)>>}

HeaderSheet(h1, h2, merged) ==
  [title      |-> MainTitle,
   max_row    |-> 3,
   max_column |-> 3,
   cells      |-> <<h1, h2, <<Str(<<"A","B","L">>), Num(8), Num(2)>> >>,
   merged     |-> merged]

HeaderWorkbooks ==
  {<<HeaderSheet(h1, h2, m), OtherSheet>> :
     h1 \in [1..3 -> HeaderLabels], h2 \in HeaderSecondRows, m \in {{}, {<<1, 1, 1, 2>>}}}

(***************************************************************************)
(* State machine.  pc = "init" before __init__ has run, "ready" after.     *)
(***************************************************************************)
NoCall   == [op |-> "none"]
NoResult == [kind |-> "none"]

Init ==
  /\ wb \in QueryWorkbooks
  /\ sheet_info = <<>>
  /\ primary_sheet = 0
  /\ pc = "init"
  /\ call = NoCall
  /\ result = NoResult

InitRows ==
  /\ wb \in RowsWorkbooks
  /\ sheet_info = <<>>
  /\ primary_sheet = 0
  /\ pc = "init"
  /\ call = NoCall
  /\ result = NoResult

InitHeaders ==
  /\ wb \in HeaderWorkbooks
  /\ sheet_info = <<>>
  /\ primary_sheet = 0
  /\ pc = "init"
  /\ call = NoCall
  /\ result = NoResult

InitParse ==
  /\ wb \in ParseWorkbooks
  /\ sheet_info = <<>>
  /\ primary_sheet = 0
  /\ pc = "init"
  /\ call = NoCall
  /\ result = NoResult

\* FinancialQueryProcessor.__init__
Load ==
  /\ pc = "init"
  /\ sheet_info' = _parse_sheets(wb)
  /\ primary_sheet' = multirow_index(wb)
  /\ wb' = touched(wb)
  /\ pc' = "ready"
  /\ UNCHANGED <<call, result>>

\* self.sheet_info = self._parse_sheets() again on the loaded workbook, with
\* the primary sheet looked up again as in __init__
Reparse ==
  /\ pc = "ready"
  /\ sheet_info' = _parse_sheets(wb)
  /\ primary_sheet' = multirow_index(wb)
  /\ wb' = touched(wb)
  /\ call' = [op |-> "_parse_sheets", before |-> sheet_info, primary |-> primary_sheet]
  /\ result' = [kind |-> "sheet_info", value |-> _parse_sheets(wb)]
  /\ pc' = "called"

\* the call returns to the caller; the processor is ready for the next one
Return ==
  /\ pc = "called"
  /\ pc' = "ready"
  /\ call' = NoCall
  /\ result' = NoResult
  /\ UNCHANGED <<wb, sheet_info, primary_sheet>>

\* detect_glossary(sheet, header_rows, repeating_headers, []) as line 81
\* calls it, on a sheet of the loaded workbook
DetectGlossary ==
  /\ pc = "ready"
  /\ \E i \in 1..Len(sheet_info) :
       /\ call' = [op |-> "detect_glossary", sheet |-> i]
       /\ result' = [kind |-> "row",
                     row  |-> detect_glossary(wb[i], sheet_info[i].header_rows,
                                find_repeating_headers(wb[i], sheet_info[i].header_rows),
                                <<>>)]
  /\ pc' = "called"
  /\ UNCHANGED <<wb, sheet_info, primary_sheet>>

\* find_repeating_headers(sheet, header_rows) as line 79 calls it
FindRepeatingHeaders ==
  /\ pc = "ready"
  /\ \E i \in 1..Len(sheet_info) :
       /\ call' = [op |-> "find_repeating_headers", sheet |-> i]
       /\ result' = [kind |-> "rows",
                     rows |-> find_repeating_headers(wb[i], sheet_info[i].header_rows)]
  /\ pc' = "called"
  /\ UNCHANGED <<wb, sheet_info, primary_sheet>>

NextParse == Load \/ Reparse \/ DetectGlossary \/ FindRepeatingHeaders \/ Return

SpecParse == InitParse /\ [][NextParse]_vars

(***************************************************************************)
(* Properties of the parse.                                                *)
(***************************************************************************)
Sheets == 1..Len(sheet_info)

\* sheet i with the columns it had when sheet_info[i] was computed (one
\* header entry was made per column)
AsParsed(i) == [wb[i] EXCEPT !.max_column = Len(sheet_info[i].headers)]

RepeatingOf(i) == find_repeating_headers(AsParsed(i), sheet_info[i].header_rows)
GlossaryOf(i)  == detect_glossary(AsParsed(i), sheet_info[i].header_rows, RepeatingOf(i), <<>>)

C3_SuccessorExcluded ==
  pc = "ready" =>
    \A i \in Sheets : \A r \in Range(RepeatingOf(i)) :
      (r + 1) \notin Range(sheet_info[i].data_rows)

\* a two-row header band is repeated
C3_Witness ==
  /\ pc = "ready"
  /\ \E i \in Sheets : Len(sheet_info[i].header_rows) = 2 /\ RepeatingOf(i) # <<>>

\* row r of the sheet has a str cell with a colon and is partly filled
GlossaryLike(sheet, r) ==
  LET filled == {c \in 1..sheet.max_column : ~is_blank(cell(sheet, r, c))}
  IN /\ \E c \in filled : is_str(cell(sheet, r, c)) /\ \E k \in 1..Len(cell(sheet, r, c).s) : cell(sheet, r, c).s[k] = ":"
     /\ filled # {}
     /\ Cardinality(filled) < sheet.max_column

\* the first glossary-like row below the header band that is neither a
\* repeating-header row nor the row after one; 0 when there is none
BoundaryOf(sheet, header_rows) ==
  LET rep  == Range(find_repeating_headers(sheet, header_rows))
      rows == {r \in 1..sheet.max_row :
                 /\ r > Last(header_rows)
                 /\ r \notin rep /\ (r - 1) \notin rep
                 /\ GlossaryLike(sheet, r)}
  IN IF rows = {} THEN 0 ELSE CHOOSE r \in rows : \A q \in rows : r <= q

\* C14: detect_glossary returns the first row below the header band, the
\* repeating-header rows and their successors skipped, that holds a str with
\* ':' and has more than 0 and fewer than max_column non-blank cells, and no
\* boundary when no row qualifies; data_rows holds no row at or after the
\* boundary found when the sheet was parsed, whatever the row holds.
C14_GlossaryBoundary ==
  /\ (pc = "called" /\ call.op = "detect_glossary") =>
       result.row = BoundaryOf(wb[call.sheet], sheet_info[call.sheet].header_rows)
  /\ pc # "init" =>
       \A i \in Sheets :
         BoundaryOf(AsParsed(i), sheet_info[i].header_rows) # 0 =>
           \A r \in Range(sheet_info[i].data_rows) :
             r < BoundaryOf(AsParsed(i), sheet_info[i].header_rows)

\* a boundary is returned, a row with a number in every other column lies
\* below it, and a data row above it
C14_Witness ==
  /\ pc = "called" /\ call.op = "detect_glossary"
  /\ result.row # 0
  /\ \E r \in (result.row + 1)..wb[call.sheet].max_row :
       \A c \in 2..Len(wb[call.sheet].cells[r]) : is_number(cell(wb[call.sheet], r, c))
  /\ sheet_info[call.sheet].data_rows # <<>>

\* a glossary-like row is passed over because it follows a repeating header
C14_SkipWitness ==
  /\ pc = "called" /\ call.op = "detect_glossary"
  /\ \E r \in Range(find_repeating_headers(wb[call.sheet], sheet_info[call.sheet].header_rows)) :
       GlossaryLike(wb[call.sheet], r + 1) /\ result.row # r + 1

\* the fields of a sheet's entry that the structural inference computes
Structure(e) ==
  <<e.headers, e.header_rows, e.sectors, e.data_rows, e.primary_key_col>>

\* C15: _parse_sheets run again on the loaded workbook yields, for every
\* sheet, the headers, header_rows, sectors, data_rows and primary_key_col
\* that the first run recorded, and the same primary sheet.
C15_Idempotent ==
  (pc = "called" /\ call.op = "_parse_sheets") =>
    /\ Len(sheet_info) = Len(call.before)
    /\ \A i \in Sheets : Structure(sheet_info[i]) = Structure(call.before[i])
    /\ primary_sheet = call.primary

\* the second run on a sheet that has a sector marker
C15_Witness ==
  /\ pc = "called" /\ call.op = "_parse_sheets"
  /\ \E i \in Sheets : call.before[i].sectors # <<>>

\* the second run changes the data rows of a sheet
C15_DataRowsWitness ==
  /\ pc = "called" /\ call.op = "_parse_sheets"
  /\ \E i \in Sheets : sheet_info[i].data_rows # call.before[i].data_rows

(***************************************************************************)
(* Regular expressions of process_query.  A pattern is a sequence of       *)
(* alternatives tried in order; an alternative is a sequence of atoms: a   *)
(* literal, or a character class repeated (min or more times, greedy or    *)
(* lazy).  re.search takes the leftmost start, there the first alternative *)
(* that matches, with Python's backtracking order of the repetitions.      *)
(***************************************************************************)
\* \w
IsWordCh(c) == IsLowerCh(c) \/ IsUpperCh(c) \/ IsDigitCh(c) \/ c = "_"

InClass(c, cls) ==
  CASE cls = "any"      -> c # "\n"
    [] cls = "space"    -> IsSpaceCh(c)
    [] cls = "alnum"    -> IsLowerCh(c) \/ IsDigitCh(c)
    [] cls = "alnumdot" -> IsLowerCh(c) \/ IsDigitCh(c) \/ c = "."
    [] cls = "metric"   -> IsLowerCh(c) \/ IsDigitCh(c) \/ c = "." \/ c = "/"
    [] cls = "sector"   -> IsWordCh(c) \/ IsSpaceCh(c) \/ c = "," \/ c = "&"
    [] cls = "sheet"    -> IsWordCh(c) \/ IsSpaceCh(c)
    [] cls = "number"   -> IsDigitCh(c) \/ c = "."
    [] OTHER            -> FALSE

Lit(s)       == [k |-> "lit", s |-> s,    c |-> "",  min |-> 0, lazy |-> FALSE]
Plus(cls)    == [k |-> "cls", s |-> <<>>, c |-> cls, min |-> 1, lazy |-> FALSE]
Star(cls)    == [k |-> "cls", s |-> <<>>, c |-> cls, min |-> 0, lazy |-> FALSE]
LazyPlus(cls) == [k |-> "cls", s |-> <<>>, c |-> cls, min |-> 1, lazy |-> TRUE]
Sp           == Plus("space")

\* number of consecutive characters of class cls in s from position p
RECURSIVE run_length(_, _, _)
run_length(s, p, cls) ==
  IF p <= Len(s) /\ InClass(s[p], cls) THEN 1 + run_length(s, p + 1, cls) ELSE 0

\* match atoms k.. of alternative alt at position p of s: the start position
\* of every atom from k on and the end position, or <<>> when there is no match
RECURSIVE match_at(_, _, _, _)
match_at(s, p, alt, k) ==
  IF k > Len(alt) THEN <<p>>
  ELSE LET a == alt[k]
       IN IF a.k = "lit"
          THEN IF OccursAt(s, a.s, p)
               THEN LET rest == match_at(s, p + Len(a.s), alt, k + 1)
                    IN IF rest = <<>> THEN <<>> ELSE <<p>> \o rest
               ELSE <<>>
          ELSE LET run   == run_length(s, p, a.c)
                   tries == [n \in a.min..run |-> match_at(s, p + n, alt, k + 1)]
                   good  == {n \in a.min..run : tries[n] # <<>>}
               IN IF good = {} THEN <<>>
                  ELSE LET n == IF a.lazy
                                THEN CHOOSE x \in good : \A y \in good : x <= y
                                ELSE CHOOSE x \in good : \A y \in good : y <= x
                       IN <<p>> \o tries[n]

NoMatch == [matched |-> FALSE, groups |-> <<>>]

\* the groups of a match of alternative j: grp[g] = <<first atom, last atom>>
\* of group g, or <<0, 0>> for a group this alternative does not contain
groups_of(s, b, grp) ==
  [g \in 1..Len(grp) |->
     IF grp[g][1] = 0 THEN None
     ELSE Str(SubSeq(s, b[grp[g][1]], b[grp[g][2] + 1] - 1))]

\* re.search(pattern, s): pattern = [alts, grps], one group table per
\* alternative
re_search(pattern, s) ==
  LET starts == 1..(Len(s) + 1)
      alts   == pattern.alts
      hit(p, j) == match_at(s, p, alts[j], 1) # <<>>
      hits   == {p \in starts : \E j \in 1..Len(alts) : hit(p, j)}
  IN IF hits = {} THEN NoMatch
     ELSE LET p == CHOOSE x \in hits : \A y \in hits : x <= y
              j == CHOOSE x \in 1..Len(alts) :
                     hit(p, x) /\ \A y \in 1..(x - 1) : ~hit(p, y)
          IN [matched |-> TRUE,
              groups  |-> groups_of(s, match_at(s, p, alts[j], 1), pattern.grps[j])]

One(alt, grp) == [alts |-> <<alt>>, grps |-> <<grp>>]

\* line 1140
multi_sheet_pattern ==
  One(<<LazyPlus("any"), Sp, Lit(<<"f","r","o","m">>), Sp, Plus("sheet"), Sp, Lit(<<"a","n","d">>), Sp,
        LazyPlus("any"), Sp, Lit(<<"f","r","o","m">>), Sp, Plus("sheet"), Sp, Lit(<<"f","o","r">>), Sp,
        Plus("alnumdot")>>,
      << <<1, 1>>, <<5, 5>>, <<9, 9>>, <<13, 13>>, <<17, 17>> >>)
\* line 1141
multi_metric_pattern ==
  One(<<LazyPlus("any"), Sp, Lit(<<"f","o","r">>), Sp, Plus("alnum")>>,
      << <<1, 1>>, <<5, 5>> >>)
\* line 1142
sector_pattern ==
  One(<<LazyPlus("any"), Sp, Lit(<<"f","o","r">>), Sp, Lit(<<"s","e","c","t","o","r">>), Sp, Plus("sector")>>,
      << <<1, 1>>, <<7, 7>> >>)
\* line 1143
general_pattern ==
  One(<<Lit(<<"a","v","e","r","a","g","e">>), Sp, Plus("any")>>, << <<3, 3>> >>)
\* line 1144
define_pattern ==
  [alts |-> << <<Lit(<<"w","h","a","t"," ","i","s">>), Sp, Plus("any")>>,
               <<Lit(<<"d","e","f","i","n","e">>), Sp, Plus("any")>> >>,
   grps |-> << << <<3, 3>> >>, << <<3, 3>> >> >>]

\* (?:h1|h2|...)(?:\s+by\s+(.+))? : every head with the tail, then without
by_tail_pattern(heads) ==
  [alts |-> [i \in 1..(2 * Len(heads)) |->
               IF i % 2 = 1
               THEN <<Lit(heads[(i + 1) \div 2]), Sp, Lit(<<"b","y">>), Sp, Plus("any")>>
               ELSE <<Lit(heads[i \div 2])>>],
   grps |-> [i \in 1..(2 * Len(heads)) |->
               IF i % 2 = 1 THEN << <<5, 5>> >> ELSE << <<0, 0>> >>]]
\* line 1145
best_stock_pattern ==
  by_tail_pattern(<<<<"b","e","s","t"," ","s","t","o","c","k">>, <<"w","h","i","c","h"," ","s","t","o","c","k"," ","i","s"," ","b","e","s","t">>, <<"t","o","p"," ","s","t","o","c","k","s">>, <<"t","o","p"," ","s","t","o","c","k">>>>)
\* line 1146
best_sector_pattern ==
  by_tail_pattern(<<<<"b","e","s","t"," ","s","e","c","t","o","r">>, <<"w","h","i","c","h"," ","s","e","c","t","o","r"," ","i","s"," ","b","e","s","t">>, <<"t","o","p"," ","s","e","c","t","o","r","s">>, <<"t","o","p"," ","s","e","c","t","o","r">>>>)
\* line 1147
lowest_metric_pattern ==
  One(<<Lit(<<"l","o","w","e","s","t">>), Sp, Plus("metric")>>, << <<3, 3>> >>)
\* line 1148
highest_metric_pattern ==
  One(<<Lit(<<"h","i","g","h","e","s","t">>), Sp, Plus("metric")>>, << <<3, 3>> >>)
\* line 1150
best_metric_pattern ==
  [alts |-> << <<Lit(<<"b","e","s","t">>), Sp, Plus("metric")>>,
               <<Lit(<<"l","o","w","e","s","t">>), Sp, Plus("metric")>>,
               <<Lit(<<"h","i","g","h","e","s","t">>), Sp, Plus("metric")>> >>,
   grps |-> << << <<3, 3>> >>, << <<3, 3>> >>, << <<3, 3>> >> >>]

\* how many ", code" repetitions of compare_stocks_pattern are unrolled
MaxListReps == 2

\* [a-z0-9]+(?:\s*,\s*[a-z0-9]+){r}
RECURSIVE code_list(_)
code_list(r) ==
  IF r = 0 THEN <<Plus("alnum")>>
  ELSE code_list(r - 1) \o <<Star("space"), Lit(<<",">>), Star("space"), Plus("alnum")>>

\* line 1151: for each head, the longest list first, each with and then
\* without the 'by' tail
compare_stocks_pattern ==
  LET heads == <<<<"w","h","i","c","h"," ","s","t","o","c","k","s"," ","a","r","e"," ","b","e","s","t">>, <<"c","o","m","p","a","r","e"," ","s","t","o","c","k","s">>>>
      per   == 2 * (MaxListReps + 1)
      head(i) == heads[((i - 1) \div per) + 1]
      reps(i) == MaxListReps - (((i - 1) % per) \div 2)
      tail(i) == (i % 2) = 1
  IN [alts |-> [i \in 1..(2 * per) |->
                  <<Lit(head(i)), Sp>> \o code_list(reps(i)) \o <<Star("space")>>
                  \o (IF tail(i) THEN <<Lit(<<"b","y">>), Sp, Plus("any")>> ELSE <<>>)],
      grps |-> [i \in 1..(2 * per) |->
                  << <<3, 3 + 4 * reps(i)>>,
                     IF tail(i) THEN <<7 + 4 * reps(i), 7 + 4 * reps(i)>> ELSE <<0, 0>> >>]]
\* line 1152
compare_mixed_pattern ==
  One(<<Plus("alnum"), Sp, Lit(<<"v","s">>), Sp, Plus("alnum"), Sp, Lit(<<"v","s">>), Sp,
        Lit(<<"s","e","c","t","o","r">>), Sp, Plus("sector"), Sp, Lit(<<"b","y">>), Sp, Plus("any")>>,
      << <<1, 1>>, <<5, 5>>, <<11, 11>>, <<15, 15>> >>)
\* lines 1153 and 1156
compare_sectors_pattern ==
  One(<<Lit(<<"s","e","c","t","o","r">>), Sp, Plus("sector"), Sp, Lit(<<"v","s">>), Sp, Lit(<<"s","e","c","t","o","r">>), Sp,
        Plus("sector"), Sp, Lit(<<"b","y">>), Sp, Plus("any")>>,
      << <<3, 3>>, <<9, 9>>, <<13, 13>> >>)
sector_vs_sector_pattern == compare_sectors_pattern
\* line 1154
range_pattern ==
  One(<<Lit(<<"s","h","o","w">>), Sp, LazyPlus("any"), Sp, Lit(<<"w","h","e","r","e">>), Sp, LazyPlus("any"), Sp,
        Lit(<<"b","e","t","w","e","e","n">>), Sp, Plus("number"), Sp, Lit(<<"a","n","d">>), Sp, Plus("number")>>,
      << <<3, 3>>, <<7, 7>>, <<11, 11>>, <<15, 15>> >>)
\* line 1155
stock_vs_sector_pattern ==
  One(<<Plus("alnum"), Sp, Lit(<<"v","s">>), Sp, Lit(<<"s","e","c","t","o","r">>), Sp, Plus("sector"), Sp,
        Lit(<<"b","y">>), Sp, Plus("any")>>,
      << <<1, 1>>, <<7, 7>>, <<11, 11>> >>)

(***************************************************************************)
(* The query texts given to process_query.                                 *)
(***************************************************************************)
Q_point        == <<"P","/","E"," ","f","o","r"," ","A","B","L">>
Q_point_ext    == <<"P","/","E"," ","f","o","r"," ","A","B","L",".","N","0","0","0","0">>
Q_point_blank  == <<"P","/","E"," ","f","o","r"," ","D","I","A","L">>
Q_point_na     == <<"P","B","V"," ","f","o","r"," ","B","O","C">>
Q_lowest_pbv   == <<"l","o","w","e","s","t"," ","P","B","V">>
Q_highest_pbv  == <<"h","i","g","h","e","s","t"," ","P","B","V">>
Q_point_lower  == <<"D","i","v"," ","Y","i","e","l","d"," ","f","o","r"," ","c","o","m","b">>
Q_two_metrics  == <<"P","/","E"," ","a","n","d"," ","P","B","V"," ","f","o","r"," ","A","B","L">>
Q_multi_sheet  == <<"P","/","E"," ","f","r","o","m"," ","M","a","i","n"," ","a","n","d"," ","P","/","E"," ","f","r","o","m"," ","O","t","h","e","r"," ","f","o","r"," ","A","B","L">>
Q_sector       == <<"D","i","v"," ","Y","i","e","l","d"," ","f","o","r"," ","s","e","c","t","o","r"," ","B","A","N","K","S">>
Q_sector_avg   == <<"a","v","e","r","a","g","e"," ","D","i","v"," ","Y","i","e","l","d"," ","f","o","r"," ","s","e","c","t","o","r"," ","B","A","N","K","S">>
Q_all_sectors  == <<"P","/","E"," ","f","o","r"," ","a","l","l"," ","s","e","c","t","o","r","s">>
Q_average      == <<"a","v","e","r","a","g","e"," ","P","/","E">>
Q_define       == <<"w","h","a","t"," ","i","s"," ","P","/","E">>
Q_best_stock   == <<"b","e","s","t"," ","s","t","o","c","k">>
Q_best_stock_by == <<"b","e","s","t"," ","s","t","o","c","k"," ","b","y"," ","D","i","v"," ","Y","i","e","l","d">>
Q_best_sector  == <<"b","e","s","t"," ","s","e","c","t","o","r">>
Q_best_sector_by == <<"b","e","s","t"," ","s","e","c","t","o","r"," ","b","y"," ","P","/","E">>
Q_best_metric  == <<"b","e","s","t"," ","P","B","V">>
Q_lowest       == <<"l","o","w","e","s","t"," ","P","/","E">>
Q_highest      == <<"h","i","g","h","e","s","t"," ","D","i","v"," ","Y","i","e","l","d">>
Q_compare      == <<"c","o","m","p","a","r","e"," ","s","t","o","c","k","s"," ","A","B","L",","," ","B","O","C"," ","b","y"," ","P","/","E">>
Q_mixed        == <<"A","B","L"," ","v","s"," ","B","O","C"," ","v","s"," ","s","e","c","t","o","r"," ","B","A","N","K","S"," ","b","y"," ","P","/","E">>
Q_stock_sector == <<"B","O","C"," ","v","s"," ","s","e","c","t","o","r"," ","B","A","N","K","S"," ","b","y"," ","P","/","E">>
Q_sectors      == <<"s","e","c","t","o","r"," ","B","A","N","K","S"," ","v","s"," ","s","e","c","t","o","r"," ","B","A","N","K","S"," ","b","y"," ","D","i","v"," ","Y","i","e","l","d">>
Q_range        == <<"s","h","o","w"," ","D","i","v"," ","Y","i","e","l","d"," ","w","h","e","r","e"," ","P","/","E"," ","b","e","t","w","e","e","n"," ","5"," ","a","n","d"," ","8">>
Q_range_bad    == <<"s","h","o","w"," ","P","B","V"," ","w","h","e","r","e"," ","P","/","E"," ","b","e","t","w","e","e","n"," ","1",".","2",".","3"," ","a","n","d"," ","8">>
Q_unknown      == <<"x","y","z","1","2","3">>
Q_empty        == <<>>
\* a ranking word with a metric of two words
Q_lowest_dy      == <<"l","o","w","e","s","t"," ","D","i","v"," ","Y","i","e","l","d">>
Q_best_dy        == <<"b","e","s","t"," ","D","i","v"," ","Y","i","e","l","d">>
\* texts that match the range pattern and another one
Q_range_lowest   == <<"s","h","o","w"," ","l","o","w","e","s","t"," ","P","/","E"," ","w","h","e","r","e"," ","P","B","V"," ","b","e","t","w","e","e","n"," ","1"," ","a","n","d"," ","3">>
Q_range_highest  == <<"s","h","o","w"," ","P","B","V"," ","w","h","e","r","e"," ","h","i","g","h","e","s","t"," ","P","/","E"," ","b","e","t","w","e","e","n"," ","5"," ","a","n","d"," ","8">>
Q_range_for      == <<"s","h","o","w"," ","P","/","E"," ","f","o","r"," ","A","B","L"," ","w","h","e","r","e"," ","P","B","V"," ","b","e","t","w","e","e","n"," ","1"," ","a","n","d"," ","3">>
\* texts that match a ranking word and another pattern
Q_best_for       == <<"b","e","s","t"," ","P","B","V"," ","f","o","r"," ","A","B","L">>
Q_lowest_sector  == <<"l","o","w","e","s","t"," ","P","/","E"," ","f","o","r"," ","s","e","c","t","o","r"," ","B","A","N","K","S">>
Q_vs_lowest      == <<"B","O","C"," ","v","s"," ","s","e","c","t","o","r"," ","B","A","N","K","S"," ","b","y"," ","l","o","w","e","s","t"," ","P","/","E">>
\* three-entity comparisons: a code with an extension, unknown entities
Q_mixed_ext      == <<"A","B","L"," ","v","s"," ","B","O","C",".","N","0","0","0","0"," ","v","s"," ","s","e","c","t","o","r"," ","B","A","N","K","S"," ","b","y"," ","P","/","E">>
Q_mixed_bad      == <<"X","Y","Z"," ","v","s"," ","B","O","C"," ","v","s"," ","s","e","c","t","o","r"," ","F","O","O","D"," ","b","y"," ","P","B","V">>
Q_define_highest == <<"w","h","a","t"," ","i","s"," ","h","i","g","h","e","s","t"," ","P","B","V">>

Queries ==
  {Q_point, Q_point_ext, Q_point_na, Q_lowest_pbv, Q_highest_pbv, Q_point_blank, Q_point_lower, Q_two_metrics, Q_multi_sheet,
   Q_sector, Q_sector_avg, Q_all_sectors, Q_average, Q_define, Q_best_stock,
   Q_best_stock_by, Q_best_sector, Q_best_sector_by, Q_best_metric, Q_lowest,
   Q_highest, Q_compare, Q_mixed, Q_stock_sector, Q_sectors, Q_range, Q_range_bad,
   Q_unknown, Q_empty, Q_lowest_dy, Q_best_dy, Q_range_lowest, Q_range_highest,
   Q_range_for, Q_best_for, Q_lowest_sector, Q_vs_lowest, Q_define_highest,
   Q_mixed_ext, Q_mixed_bad}

PatternNames ==
  {"multi_sheet", "multi_metric", "sector", "general", "define", "best_stock",
   "best_sector", "lowest_metric", "highest_metric", "best_metric", "compare_stocks",
   "compare_mixed", "compare_sectors", "range", "stock_vs_sector", "sector_vs_sector"}

PatternOf(name) ==
  CASE name = "multi_sheet"      -> multi_sheet_pattern
    [] name = "multi_metric"     -> multi_metric_pattern
    [] name = "sector"           -> sector_pattern
    [] name = "general"          -> general_pattern
    [] name = "define"           -> define_pattern
    [] name = "best_stock"       -> best_stock_pattern
    [] name = "best_sector"      -> best_sector_pattern
    [] name = "lowest_metric"    -> lowest_metric_pattern
    [] name = "highest_metric"   -> highest_metric_pattern
    [] name = "best_metric"      -> best_metric_pattern
    [] name = "compare_stocks"   -> compare_stocks_pattern
    [] name = "compare_mixed"    -> compare_mixed_pattern
    [] name = "compare_sectors"  -> compare_sectors_pattern
    [] name = "range"            -> range_pattern
    [] name = "stock_vs_sector"  -> stock_vs_sector_pattern
    [] name = "sector_vs_sector" -> sector_vs_sector_pattern

\* lines 1135-1136: query.strip(), then .lower()
normalized_query(q) == lower(strip(q))

\* every re.search of process_query on every query text of the model (the
\* matches depend on the text alone)
Matches ==
  [q \in Queries |->
     [name \in PatternNames |-> re_search(PatternOf(name), normalized_query(q))]]

(***************************************************************************)
(* metric_dictionary.metric_mappings: header text -> canonical metric      *)
(* name, in dictionary order.                                              *)
(***************************************************************************)
metric_mappings ==
  << <<<<"P","/","E">>, <<"P","/","E">>>>,
     <<<<"P","E">>, <<"P","/","E">>>>,
     <<<<"D","i","v"," ","Y","i","e","l","d">>, <<"D","i","v"," ","Y","i","e","l","d">>>>,
     <<<<"D","i","v","i","d","e","n","d"," ","Y","i","e","l","d">>, <<"D","i","v"," ","Y","i","e","l","d">>>>,
     <<<<"P","B","V">>, <<"P","B","V">>>> >>

\* metric_dictionary.metric_definitions: the metrics that have a definition
metric_definitions == {<<"P","/","E">>, <<"D","i","v"," ","Y","i","e","l","d">>}

(***************************************************************************)
(* FinancialQueryProcessor: metric and entity resolution                   *)
(***************************************************************************)
\* F applied to the value v: v is computed once and named by F's parameter
With(v, F(_)) == F(v)

\* least element of a non-empty set of numbers
Min(S) == CHOOSE x \in S : \A y \in S : x <= y

\* .lower().replace('.', '').replace('/', '')
clean_metric(s) == remove_char(remove_char(lower(s), "."), "/")

\* _normalize_metric (lines 102-112); metric is a str
_normalize_metric(metric) ==
  IF metric = <<>> THEN metric
  ELSE With(strip(clean_metric(metric)), LAMBDA metric_clean :
       With({k \in 1..Len(metric_mappings) :
               \/ metric_clean = clean_metric(metric_mappings[k][1])
               \/ metric_clean = clean_metric(metric_mappings[k][2])},
            LAMBDA hits : IF hits = {} THEN metric ELSE metric_mappings[Min(hits)][2]))

\* lines 118-123 with line 137: the four search terms, each as
\* term.lower().replace(' ', '')
search_terms(keyword) ==
  With(lower(keyword), LAMBDA kw :
    <<remove_char(kw, " "),
      remove_char(kw, " "),
      remove_char(replace_char(kw, " ", "."), " "),
      remove_char(split(kw, <<" ">>)[1], " ")>>)

\* lines 132-134: header.split(' > ')[0] (the header itself when it has no
\* ' > '), then .lower().replace(' ', '')
normalized_header(header) == remove_char(lower(split(header, SepGt)[1]), " ")

\* lines 136-144: the first search term equal to the header, 0 when none is
matching_term(terms, header) ==
  With(normalized_header(header), LAMBDA nh :
    With({k \in 1..Len(terms) : terms[k] = nh},
         LAMBDA hits : IF hits = {} THEN 0 ELSE Min(hits)))

\* a result of _find_column_across_sheets: (sheet_name, col, header)
entry(i, c) ==
  [sheet |-> i, name |-> sheet_info[i].name,
   col |-> get_column_letter(c), header |-> sheet_info[i].headers[c].s]

\* lines 125-149: the matches of one sheet; the matches of the term 'pe' are
\* replaced by the earliest of them, put last
sheet_matches(terms, i) ==
  With(sheet_info[i].headers, LAMBDA headers :
  With([c \in 1..Len(headers) |->
          IF truthy(headers[c]) THEN matching_term(terms, headers[c].s) ELSE 0],
       LAMBDA term :
  With({c \in 1..Len(headers) : term[c] # 0 /\ terms[term[c]] = <<"p","e">>}, LAMBDA pe :
  With(sorted_list({c \in 1..Len(headers) : term[c] # 0} \ pe), LAMBDA plain :
    [k \in 1..Len(plain) |-> entry(i, plain[k])]
    \o (IF pe = {} THEN <<>> ELSE <<entry(i, Min(pe))>>)))))

\* concatenation of the sequences of a sequence
RECURSIVE flatten(_)
flatten(seqs) == IF seqs = <<>> THEN <<>> ELSE Head(seqs) \o flatten(Tail(seqs))

\* _find_column_across_sheets (lines 114-152)
_find_column_across_sheets(keyword) ==
  With(search_terms(keyword), LAMBDA terms :
    flatten([i \in 1..Len(sheet_info) |-> sheet_matches(terms, i)]))

\* [col for sheet, col, _ in matches if sheet == sheet_name]
cols_of(matches, i) ==
  With(SelectSeq(matches, LAMBDA x : x.sheet = i),
       LAMBDA on : [k \in 1..Len(on) |-> on[k].col])

\* the columns of a metric on sheet i
columns_on(keyword, i) == cols_of(_find_column_across_sheets(keyword), i)

\* the primary-key cell of a row of sheet i
pk_cell(i, row) ==
  cell(wb[i], row, column_index_from_string(sheet_info[i].primary_key_col))

\* the first of rows that satisfies P, 0 when none does
first_row(rows, P(_)) ==
  With({k \in 1..Len(rows) : P(rows[k])},
       LAMBDA hits : IF hits = {} THEN 0 ELSE rows[Min(hits)])

\* line 163: the cell is set and its text is the code
exact_code(i, row, code) ==
  With(pk_cell(i, row), LAMBDA v : truthy(v) /\ strip(py_str(v)) = code)

\* line 171: the cell is set and its text is the base code, whatever the case
base_code_of(i, row, base_code) ==
  With(pk_cell(i, row), LAMBDA v : truthy(v) /\ upper(strip(py_str(v))) = upper(base_code))

\* a variant without the retry on the base code
find_company_exact_only(i, code0) ==
  With(strip(code0), LAMBDA code :
    first_row(sheet_info[i].data_rows, LAMBDA row : exact_code(i, row, code)))

\* _find_company (lines 154-175): the row, 0 for None
_find_company(i, code0) ==
  With(strip(code0), LAMBDA code :
  With(first_row(sheet_info[i].data_rows, LAMBDA row : exact_code(i, row, code)),
       LAMBDA exact :
    IF exact # 0 THEN exact
    ELSE IF contains(code, <<".">>)
    THEN first_row(sheet_info[i].data_rows,
                   LAMBDA row : base_code_of(i, row, split(code, <<".">>)[1]))
    ELSE 0))

\* lines 183-186: the data rows between a sector marker and the next one
rows_of_sector(i, sectors, k) ==
  With(IF k + 1 <= Len(sectors) THEN sectors[k + 1].row ELSE wb[i].max_row + 1,
       LAMBDA next_sector_row :
         SelectSeq(sheet_info[i].data_rows,
                   LAMBDA r : sectors[k].row < r /\ r < next_sector_row))

\* a variant that takes the rows down to the end of the sheet
get_sector_rows_to_end(i, sector_code0) ==
  With(strip(upper(sector_code0)), LAMBDA sector_code :
  With(sheet_info[i].sectors, LAMBDA sectors :
  With({k \in 1..Len(sectors) : upper(sectors[k].name) = sector_code}, LAMBDA hits :
    IF hits = {} THEN <<>>
    ELSE SelectSeq(sheet_info[i].data_rows, LAMBDA r : sectors[Min(hits)].row < r))))

\* _get_sector_rows (lines 177-189)
_get_sector_rows(i, sector_code0) ==
  With(strip(upper(sector_code0)), LAMBDA sector_code :
  With(sheet_info[i].sectors, LAMBDA sectors :
  With({k \in 1..Len(sectors) : upper(sectors[k].name) = sector_code}, LAMBDA hits :
    IF hits = {} THEN <<>> ELSE rows_of_sector(i, sectors, Min(hits)))))

\* _get_all_sectors (lines 191-196)
_get_all_sectors(i) ==
  [k \in 1..Len(sheet_info[i].sectors) |-> sheet_info[i].sectors[k].name]

\* _validate_entity (lines 1070-1080)
_validate_entity(entity0, is_company) ==
  With(strip(upper(entity0)), LAMBDA entity :
    \E i \in 1..Len(sheet_info) :
       IF is_company THEN _find_company(i, entity) # 0
       ELSE _get_sector_rows(i, entity) # <<>>)

(***************************************************************************)
(* Results.  A handler returns (text, chart); the text is modelled by the  *)
(* name of its template (kind), the values put into it (a, b, items, avg)  *)
(* and the chart by "fig" or "none".  A number is a quotient n/d.          *)
(***************************************************************************)
NoAvg == [n |-> 0, d |-> 0]

R(kind, a, b, items, avg, chart) ==
  [kind |-> kind, a |-> a, b |-> b, items |-> items, avg |-> avg, chart |-> chart]

Raise(exc) == R("raise", exc, <<>>, <<>>, NoAvg, "none")

\* (None, None)
NoneNone == R("none", <<>>, <<>>, <<>>, NoAvg, "none")

Item(tag, e, h, v, n, d, line) ==
  [tag |-> tag, e |-> e, h |-> h, v |-> v, n |-> n, d |-> d, line |-> line]

\* x < y and x = y for quotients with positive denominators
q_lt(x, y) == x.n * y.d < y.n * x.d
q_eq(x, y) == x.n * y.d = y.n * x.d

\* f"{x:.2f}" of a quotient
fmt_q(x) == IF x.n < 0 THEN <<"-">> \o fmt2f(0 - x.n, x.d) ELSE fmt2f(x.n, x.d)

\* seq[:k]
take(seq, k) == SubSeq(seq, 1, IF Len(seq) < k THEN Len(seq) ELSE k)

\* the place of items[i] in sorted(items, key=value): after the smaller
\* values and after the equal values that come before it (the sort is stable)
place_asc(items, i) ==
  1 + Cardinality({j \in 1..Len(items) :
                     \/ q_lt(items[j], items[i])
                     \/ (q_eq(items[j], items[i]) /\ j < i)})

\* the place of items[i] in sorted(items, key=value, reverse=True): after the
\* greater values and after the equal values that come before it
place_desc(items, i) ==
  1 + Cardinality({j \in 1..Len(items) :
                     \/ q_lt(items[i], items[j])
                     \/ (q_eq(items[j], items[i]) /\ j < i)})

\* sorted(items, key=value)
sorted_asc(items) ==
  [p \in 1..Len(items) |-> items[CHOOSE i \in 1..Len(items) : place_asc(items, i) = p]]

\* a variant that is the ascending order reversed (ties come out reversed)
sorted_desc_reversed(items) ==
  [p \in 1..Len(items) |->
     items[CHOOSE i \in 1..Len(items) : place_asc(items, i) = Len(items) + 1 - p]]

\* sorted(items, key=value, reverse=True)
sorted_desc(items) ==
  [p \in 1..Len(items) |-> items[CHOOSE i \in 1..Len(items) : place_desc(items, i) = p]]

\* sum of the values of items with denominator 1
RECURSIVE sum_n(_)
sum_n(items) == IF items = <<>> THEN 0 ELSE Head(items).n + sum_n(Tail(items))

\* sum(values) / len(values)
average(items) == [n |-> sum_n(items), d |-> Len(items)]

\* the index of the primary sheet: detect_multirow_sheet(self.wb)
primary == multirow_index(wb)

\* sheet.cell(row, column_index_from_string(col)).value on sheet i
value_at(i, row, col) == cell(wb[i], row, column_index_from_string(col))

\* the numeric cells of one row among columns, as items named `name`
numeric_of_row(i, row, columns, name) ==
  With(SelectSeq(columns, LAMBDA col : is_number(value_at(i, row, col))), LAMBDA nums :
    [j \in 1..Len(nums) |->
       With(value_at(i, row, nums[j]),
            LAMBDA v : Item("value", name, nums[j], v, v.n, 1, <<>>))])

\* for row in rows: for col in columns: if isinstance(value, (int, float))
numeric_cells(i, rows, columns, name(_)) ==
  flatten([k \in 1..Len(rows) |-> numeric_of_row(i, rows[k], columns, name(rows[k]))])

\* the rows whose primary-key cell is set: `if not code: continue`
coded_rows(i, rows) == SelectSeq(rows, LAMBDA row : truthy(pk_cell(i, row)))

\* code.strip() of the row's code
code_text(i, row) == strip(pk_cell(i, row).s)

\* code.strip() raises for a code that is a number
strip_raises(i, rows, columns) ==
  \E k \in 1..Len(rows) :
     /\ With(pk_cell(i, rows[k]), LAMBDA v : is_number(v) /\ truthy(v))
     /\ \E j \in 1..Len(columns) : is_number(value_at(i, rows[k], columns[j]))

\* the (code, value) pairs that the ranking and average handlers collect
company_pairs(i, rows, columns) ==
  numeric_cells(i, coded_rows(i, rows), columns, LAMBDA row : code_text(i, row))

\* the first numeric value of a row among columns, None when there is none
first_numeric(i, row, columns) ==
  With(SelectSeq(columns, LAMBDA col : is_number(value_at(i, row, col))),
       LAMBDA nums : IF nums = <<>> THEN None ELSE value_at(i, row, nums[1]))

NA == <<"N","/","A">>

\* lines 934-942: some match has a numeric value in the company's row
has_numeric(matches, code) ==
  \E j \in 1..Len(matches) :
     With(_find_company(matches[j].sheet, code), LAMBDA row :
       row # 0 /\ is_number(value_at(matches[j].sheet, row, matches[j].col)))

\* _generate_company_chart (lines 929-954): a figure when some metric has a
\* numeric value for the company
_generate_company_chart(code, metrics) ==
  IF \E k \in 1..Len(metrics) : has_numeric(_find_column_across_sheets(metrics[k]), code)
  THEN "fig" ELSE "none"

\* lines 225-232: the row of the company on a sheet, with the retry on the
\* base code
cached_row(i, original_code) ==
  With(_find_company(i, original_code), LAMBDA row :
    IF row = 0 /\ contains(original_code, <<".">>)
    THEN _find_company(i, split(original_code, <<".">>)[1])
    ELSE row)

\* line 241: header.split(' > ')[-1] (the header itself when it has no ' > ')
display_header(header) == Last(split(header, SepGt))

\* line 242: one line of the answer
value_line(name, header, value) ==
  With(display_header(header), LAMBDA h :
    Item("value", name, h, value, value.n, 1,
         name \o <<" ","-"," ">> \o h \o <<":"," ">>
              \o (IF value.t # "none" THEN py_str(value) ELSE NA)))

\* lines 219-242: the lines of one metric
metric_lines(original_code, metric, matches) ==
  IF matches = <<>>
  THEN <<Item("metric_not_found", metric, <<>>, None, 0, 1, <<>>)>>
  ELSE [j \in 1..Len(matches) |->
          With(cached_row(matches[j].sheet, original_code), LAMBDA row :
            IF row = 0
            THEN Item("company_not_found", matches[j].name, metric, None, 0, 1, <<>>)
            ELSE value_line(matches[j].name, matches[j].header,
                            value_at(matches[j].sheet, row, matches[j].col)))]

\* _handle_company_multi_metric (lines 211-250)
_handle_company_multi_metric(code, metrics) ==
  With(strip(upper(code)), LAMBDA original_code :
  With(flatten([k \in 1..Len(metrics) |->
                  metric_lines(original_code, metrics[k],
                               _find_column_across_sheets(metrics[k]))]),
       LAMBDA results :
    IF results = <<>>
    THEN R("no_data_for_company", original_code, <<>>, <<>>, NoAvg, "none")
    ELSE R("data_for_company", original_code, <<>>, results, NoAvg,
           _generate_company_chart(original_code, metrics))))

\* _compute_sector_average (lines 291-310): the average, NoAvg for (None, None)
_compute_sector_average(i, sector, columns) ==
  With(numeric_cells(i, _get_sector_rows(i, sector), columns, LAMBDA row : <<>>),
       LAMBDA values : IF values = <<>> THEN NoAvg ELSE average(values))

\* lines 343-352: the answer for the collected pairs
sector_metric_result(sector, metric, company_data) ==
  IF company_data = <<>> THEN NoneNone
  ELSE R("sector_metric", metric, sector, sorted_desc(company_data),
         average(company_data), "fig")

\* _compute_sector_metric_with_companies (lines 312-353)
_compute_sector_metric_with_companies(i, sector, metric, columns) ==
  With(_get_sector_rows(i, sector), LAMBDA rows :
    IF rows = <<>> THEN NoneNone
    ELSE IF strip_raises(i, rows, columns) THEN Raise("AttributeError")
    ELSE sector_metric_result(sector, metric, company_pairs(i, rows, columns)))

AllSectors == <<"a","l","l"," ","s","e","c","t","o","r","s">>

\* lines 262-283: the averages of the sectors that have one
all_sectors_result(i, metric, names, avg) ==
  With(SelectSeq([k \in 1..Len(names) |-> k], LAMBDA k : avg[k] # NoAvg), LAMBDA with :
    IF with = <<>>
    THEN R("no_data_across_sectors", metric, <<>>, <<>>, NoAvg, "none")
    ELSE R("all_sectors", metric, sheet_info[i].name,
           [j \in 1..Len(with) |->
              Item("sector_average", names[with[j]], <<>>, None,
                   avg[with[j]].n, avg[with[j]].d, fmt_q(avg[with[j]]))],
           NoAvg, "fig"))

\* lines 260-289, for the columns found
sector_metric_on(i, sector, metric, columns) ==
  IF columns = <<>>
  THEN R("metric_not_found", metric, sheet_info[i].name, <<>>, NoAvg, "none")
  ELSE IF strip(lower(sector)) = AllSectors
  THEN With(_get_all_sectors(i), LAMBDA names :
         all_sectors_result(i, metric, names,
           [k \in 1..Len(names) |-> _compute_sector_average(i, names[k], columns)]))
  ELSE With(_compute_sector_metric_with_companies(i, sector, metric, columns),
            LAMBDA one :
              IF one.kind = "none"
              THEN R("sector_or_data_not_found", sector, metric, <<>>, NoAvg, "none")
              ELSE one)

\* _handle_sector_metric (lines 254-289)
_handle_sector_metric(sector, metric) ==
  With(primary, LAMBDA i : sector_metric_on(i, sector, metric, columns_on(metric, i)))

\* lines 402-422: the answer for the collected pairs
general_metric_result(i, metric, company_data) ==
  IF company_data = <<>>
  THEN R("no_numerical_data", metric, sheet_info[i].name, <<>>, NoAvg, "none")
  ELSE R("general_metric", metric, sheet_info[i].name,
         take(sorted_desc(company_data), 5), average(company_data), "none")

\* lines 382-400, for the columns found
general_metric_on(i, metric, columns) ==
  IF columns = <<>>
  THEN R("metric_not_found", metric, sheet_info[i].name, <<>>, NoAvg, "none")
  ELSE IF strip_raises(i, sheet_info[i].data_rows, columns) THEN Raise("AttributeError")
  ELSE general_metric_result(i, metric,
                             company_pairs(i, sheet_info[i].data_rows, columns))

\* _handle_general_metric (lines 378-423)
_handle_general_metric(metric) ==
  With(primary, LAMBDA i : general_metric_on(i, metric, columns_on(metric, i)))

\* lines 503-512: the columns of the metric on the primary sheet, with the
\* two retries
ranking_columns(metric, i) ==
  With(columns_on(metric, i), LAMBDA columns :
    IF columns # <<>> THEN columns
    ELSE With(columns_on(remove_char(metric, " "), i), LAMBDA alt :
           IF alt # <<>> \/ ~contains(metric, <<" ">>) THEN alt
           ELSE columns_on(split(metric, <<" ">>)[1], i)))

\* lines 514-545 and 563-594: the first `count` pairs in the order `sorted`
ranking_result(i, metric, kind, sorted(_), count, metric_values) ==
  IF metric_values = <<>>
  THEN R("no_valid_data", metric, sheet_info[i].name, <<>>, NoAvg, "none")
  ELSE R(kind, metric, sheet_info[i].name, take(sorted(metric_values), count),
         NoAvg, "fig")

\* lines 498-545 and 547-594, for the columns found
ranking_on(i, metric, kind, sorted(_), count, columns) ==
  IF columns = <<>>
  THEN R("metric_not_found", metric, sheet_info[i].name, <<>>, NoAvg, "none")
  ELSE IF strip_raises(i, sheet_info[i].data_rows, columns) THEN Raise("AttributeError")
  ELSE ranking_result(i, metric, kind, sorted, count,
                      company_pairs(i, sheet_info[i].data_rows, columns))

ranking(metric, kind, sorted(_), count) ==
  With(primary, LAMBDA i :
    ranking_on(i, metric, kind, sorted, count, ranking_columns(metric, i)))

\* a variant that returns four pairs
find_lowest_four(metric) == ranking(metric, "lowest", sorted_asc, 4)

\* _find_lowest_metric_value (lines 498-545)
_find_lowest_metric_value(metric) == ranking(metric, "lowest", sorted_asc, 3)

\* a variant whose descending order reverses the ascending one
find_highest_reversed(metric) == ranking(metric, "highest", sorted_desc_reversed, 3)

\* _find_highest_metric_value (lines 547-594)
_find_highest_metric_value(metric) == ranking(metric, "highest", sorted_desc, 3)

\* lines 635-637
lower_is_better == {<<"p","e">>, <<"p","b","v">>, <<"i","s","s","u","e","d","q","t","y","m","n">>, <<"i","s","s","u","e","d">>, <<"q","t","y">>, <<"m","n">>}

\* line 639
is_lower_better(metric) ==
  remove_char(remove_char(remove_char(lower(_normalize_metric(metric)), " "), "."), "/")
    \in lower_is_better

retag(items, tag) == [k \in 1..Len(items) |-> [items[k] EXCEPT !.tag = tag]]

\* lines 628-677: the three highest, then the three lowest; b says which
\* direction is reported as the better one
best_metric_result(i, metric, metric_values) ==
  IF metric_values = <<>>
  THEN R("no_valid_data", metric, sheet_info[i].name, <<>>, NoAvg, "none")
  ELSE R("best_metric", metric,
         IF is_lower_better(metric) THEN <<"l","o","w","e","r">> ELSE <<"h","i","g","h","e","r">>,
         retag(take(sorted_desc(metric_values), 3), "highest")
           \o retag(take(sorted_asc(metric_values), 3), "lowest"),
         NoAvg, "fig")

\* lines 596-626, for the columns found
best_metric_on(i, metric, columns) ==
  IF columns = <<>>
  THEN R("metric_not_found", metric, sheet_info[i].name, <<>>, NoAvg, "none")
  ELSE IF strip_raises(i, sheet_info[i].data_rows, columns) THEN Raise("AttributeError")
  ELSE best_metric_result(i, metric, company_pairs(i, sheet_info[i].data_rows, columns))

\* _find_best_metric_value (lines 596-677)
_find_best_metric_value(metric) ==
  With(primary, LAMBDA i : best_metric_on(i, metric, ranking_columns(metric, i)))

\* lines 433-437: the metrics of the score and their weights, in tenths
CompositeLabel == <<"c","o","m","p","o","s","i","t","e"," ","s","c","o","r","e"," ","(","P","/","E",","," ","D","i","v"," ","Y","i","e","l","d",","," ","P","B","V",")">>
score_metrics(criteria) ==
  IF ~truthy(criteria) THEN <<<<"P","/","E">>, <<"D","i","v"," ","Y","i","e","l","d">>, <<"P","B","V">>>> ELSE <<criteria.s>>
score_weights(criteria) ==
  IF ~truthy(criteria) THEN <<4, 3, -2>> ELSE <<10>>

\* lines 445-453: the number of metrics the loop passes for a row, each with
\* a column and a numeric value in its first column
passed(i, row, cols) ==
  Cardinality({k \in 1..Len(cols) :
                 \A j \in 1..k : cols[j] # <<>> /\ is_number(value_at(i, row, cols[j][1]))})

\* line 454: the score of a row over its first k metrics, in tenths
RECURSIVE score_of(_, _, _, _, _)
score_of(i, row, cols, weights, k) ==
  IF k = 0 THEN 0
  ELSE score_of(i, row, cols, weights, k - 1) + value_at(i, row, cols[k][1]).n * weights[k]

\* lines 455-464: the answer for the rows that have every metric
top_stocks(i, criteria, cols, weights, ranked) ==
  IF \E r \in 1..Len(ranked) : is_number(pk_cell(i, ranked[r]))
  THEN Raise("AttributeError")
  ELSE IF ranked = <<>>
  THEN R("no_valid_stock_data", <<>>, <<>>, <<>>, NoAvg, "none")
  ELSE R("top_stocks", IF truthy(criteria) THEN criteria.s ELSE CompositeLabel,
         sheet_info[i].name,
         take(sorted_desc([r \in 1..Len(ranked) |->
                Item("score", code_text(i, ranked[r]), <<>>, None,
                     score_of(i, ranked[r], cols, weights, Len(cols)), 10, <<>>)]), 3),
         NoAvg, "fig")

\* a variant that also ranks the rows that have some of the metrics only, on
\* the metrics they have
best_stock_partial(i, criteria, metrics, cols, rows) ==
  top_stocks(i, criteria, cols, score_weights(criteria),
             SelectSeq(rows, LAMBDA row : passed(i, row, cols) >= 1))

\* lines 439-453, for the columns of the metrics and the rows with a code: a
\* metric without a column ends the call at the first row that reaches it
best_stock_on(i, criteria, metrics, cols, rows) ==
  With({k \in 1..Len(cols) :
          cols[k] = <<>> /\ \E r \in 1..Len(rows) : passed(i, rows[r], cols) >= k - 1},
       LAMBDA missing :
    IF missing # {}
    THEN R("metric_not_found", metrics[Min(missing)], sheet_info[i].name, <<>>, NoAvg, "none")
    ELSE top_stocks(i, criteria, cols, score_weights(criteria),
                    SelectSeq(rows, LAMBDA row : passed(i, row, cols) = Len(cols))))

\* _find_best_stock (lines 425-464); criteria is None or a str
_find_best_stock(criteria) ==
  With(primary, LAMBDA i :
  With(score_metrics(criteria), LAMBDA metrics :
    best_stock_on(i, criteria, metrics,
                  [k \in 1..Len(metrics) |-> columns_on(metrics[k], i)],
                  coded_rows(i, sheet_info[i].data_rows))))

\* lines 476-496, for the columns found.  The chart method of line 494,
\* _generate_sector_comparison_chart, is not defined.
best_sector_on(i, criteria, names, columns) ==
  IF columns = <<>>
  THEN R("metric_not_found", criteria, sheet_info[i].name, <<>>, NoAvg, "none")
  ELSE IF \A k \in 1..Len(names) : _compute_sector_average(i, names[k], columns) = NoAvg
  THEN R("no_valid_sector_data", criteria, <<>>, <<>>, NoAvg, "none")
  ELSE Raise("AttributeError")

\* _find_best_sector (lines 466-496); criteria is None or a str
_find_best_sector(criteria) ==
  IF ~truthy(criteria)
  THEN R("specify_metric", <<>>, <<>>, <<>>, NoAvg, "none")
  ELSE With(primary, LAMBDA i :
         best_sector_on(i, criteria.s, _get_all_sectors(i), columns_on(criteria.s, i)))

\* lines 728-752: one stock of the comparison
stock_value(i, original_code, columns) ==
  With(upper(strip(original_code)), LAMBDA code :
  With(cached_row(i, code), LAMBDA row :
    IF row = 0 THEN Item("company_not_found", code, <<>>, None, 0, 1, <<>>)
    ELSE With(first_numeric(i, row, columns), LAMBDA v :
           IF v.t = "none" THEN Item("no_valid_data", code, <<>>, None, 0, 1, <<>>)
           ELSE Item("value", code, <<>>, v, v.n, 1, fmt2f(v.n, 1)))))

\* lines 722-770, for the columns found
compare_stocks_on(i, stocks, metric, columns) ==
  IF columns = <<>>
  THEN R("metric_not_found", metric, sheet_info[i].name, <<>>, NoAvg, "none")
  ELSE With([k \in 1..Len(stocks) |-> stock_value(i, stocks[k], columns)], LAMBDA results :
         IF \A k \in 1..Len(results) : results[k].tag # "value"
         THEN R("no_valid_data_stocks", metric, <<>>, <<>>, NoAvg, "none")
         ELSE R("comparison_of_stocks", metric, <<>>, results, NoAvg, "fig"))

\* _compare_stocks (lines 716-770): the columns whose header has no '%'
_compare_stocks(stocks, metric) ==
  With(primary, LAMBDA i :
    compare_stocks_on(i, stocks, metric,
      cols_of(SelectSeq(_find_column_across_sheets(metric),
                        LAMBDA x : ~contains(x.header, <<"%">>)), i)))

\* the matches of a metric on the sheet named by the query
matches_on_sheet(metric, sheet_name) ==
  SelectSeq(_find_column_across_sheets(metric), LAMBDA x : lower(x.name) = lower(sheet_name))

\* _generate_multi_sheet_chart (lines 1043-1068)
_generate_multi_sheet_chart(code, pairs) ==
  IF \E k \in 1..Len(pairs) : has_numeric(matches_on_sheet(pairs[k][1], pairs[k][2]), code)
  THEN "fig" ELSE "none"

\* lines 779-791: the lines of one (metric, sheet) pair; the `continue` of
\* line 790 ends every pass of the inner loop before a value is read
pair_lines(code, pair, matches) ==
  IF matches = <<>>
  THEN <<Item("metric_not_found", pair[1], pair[2], None, 0, 1, <<>>)>>
  ELSE With(SelectSeq(matches, LAMBDA x : _find_company(x.sheet, code) = 0), LAMBDA lost :
         [j \in 1..Len(lost) |->
            Item("company_not_found", lost[j].name, pair[1], None, 0, 1, <<>>)])

\* _handle_multi_sheet_query (lines 773-801)
_handle_multi_sheet_query(code0, pairs) ==
  With(strip(upper(code0)), LAMBDA code :
  With(flatten([k \in 1..Len(pairs) |->
                  pair_lines(code, pairs[k], matches_on_sheet(pairs[k][1], pairs[k][2]))]),
       LAMBDA results :
    IF results = <<>>
    THEN R("no_data_multi_sheet", code, <<>>, <<>>, NoAvg, "none")
    ELSE R("data_for_company", code, <<>>, results, NoAvg,
           _generate_multi_sheet_chart(code, pairs))))

\* lines 818-842: a company of the comparison
company_entity(i, name, columns) ==
  With(_find_company(i, name), LAMBDA row :
    IF row = 0 THEN Item("not_found", name, <<>>, None, 0, 1, <<>>)
    ELSE With(first_numeric(i, row, columns), LAMBDA v :
           IF v.t = "none" THEN Item("no_valid_data", name, <<>>, None, 0, 1, <<>>)
           ELSE Item("company", name, <<>>, v, v.n, 1, fmt2f(v.n, 1))))

\* lines 843-862: a sector of the comparison
sector_entity(i, name, columns) ==
  With(_get_sector_rows(i, name), LAMBDA rows :
    IF rows = <<>> THEN Item("not_found", name, <<>>, None, 0, 1, <<>>)
    ELSE With(numeric_cells(i, rows, columns, LAMBDA r : <<>>), LAMBDA vals :
           IF vals = <<>> THEN Item("no_valid_data", name, <<>>, None, 0, 1, <<>>)
           ELSE Item("sector", name, <<>>, None, sum_n(vals), Len(vals),
                     fmt_q(average(vals)))))

\* lines 812-817: one entity [name, type] of the comparison
entity_value(i, entity, columns) ==
  With(strip(upper(entity.name)), LAMBDA name :
    IF ~_validate_entity(name, entity.type = "company")
    THEN Item("not_found", name, <<>>, None, 0, 1, <<>>)
    ELSE IF entity.type = "company" THEN company_entity(i, name, columns)
    ELSE sector_entity(i, name, columns))

\* lines 806-882, for the columns found
compare_mixed_on(i, entities, metric, columns) ==
  IF columns = <<>>
  THEN R("metric_not_found", metric, sheet_info[i].name, <<>>, NoAvg, "none")
  ELSE With([k \in 1..Len(entities) |-> entity_value(i, entities[k], columns)],
            LAMBDA results :
         IF \A k \in 1..Len(results) : results[k].tag \notin {"company", "sector"}
         THEN R("no_valid_data_entities", metric, <<>>, <<>>, NoAvg, "none")
         ELSE R("comparison", metric, <<>>, results, NoAvg, "fig"))

\* _compare_mixed_entities (lines 803-882)
_compare_mixed_entities(entities, metric) ==
  With(primary, LAMBDA i : compare_mixed_on(i, entities, metric, columns_on(metric, i)))

\* a variant with the lower bound exclusive
in_range_exclusive_min(v, min_value, max_value) ==
  min_value < 100 * v /\ 100 * v <= max_value

\* line 909: min_value <= filter_value <= max_value, the bounds in hundredths
in_range(v, min_value, max_value) ==
  min_value <= 100 * v /\ 100 * v <= max_value

\* line 901: the code is set and validates as a company
valid_code(code) == truthy(code) /\ _validate_entity(strip(upper(py_str(code))), TRUE)

\* lines 899-919: whether a data row of the primary sheet is listed
range_lists(i, row, display_columns, filter_columns, min_value, max_value) ==
  /\ valid_code(pk_cell(i, row))
  /\ With(first_numeric(i, row, filter_columns),
          LAMBDA fv : fv.t # "none" /\ in_range(fv.n, min_value, max_value))
  /\ first_numeric(i, row, display_columns).t # "none"

\* line 918: one line of the answer
range_line(i, row, display_columns) ==
  With(first_numeric(i, row, display_columns), LAMBDA dv :
    Item("value", py_str(pk_cell(i, row)), <<>>, dv, dv.n, 1, fmt2f(dv.n, 1)))

\* lines 921-927.  The chart call of line 925 passes the list of results as
\* the code and the metric name as the list of metrics; no header of the
\* model is a single character, so it finds no column and returns None.
range_result(i, display_metric, filter_metric, min_value, max_value, display_columns, listed) ==
  IF listed = <<>>
  THEN R("no_companies_in_range", filter_metric, <<>>, <<>>,
         [n |-> min_value, d |-> max_value], "none")
  ELSE R("companies_in_range", filter_metric, display_metric,
         [k \in 1..Len(listed) |-> range_line(i, listed[k], display_columns)],
         [n |-> min_value, d |-> max_value], "none")

\* lines 888-919, for the columns found
range_on(i, display_metric, filter_metric, min_value, max_value,
         display_columns, filter_columns) ==
  IF display_columns = <<>> \/ filter_columns = <<>>
  THEN R("range_metric_not_found", display_metric, filter_metric, <<>>, NoAvg, "none")
  ELSE IF \E k \in 1..Len(sheet_info[i].data_rows) :
            With(pk_cell(i, sheet_info[i].data_rows[k]),
                 LAMBDA code : is_number(code) /\ truthy(code))
  THEN Raise("AttributeError")
  ELSE range_result(i, display_metric, filter_metric, min_value, max_value,
         display_columns,
         SelectSeq(sheet_info[i].data_rows, LAMBDA row :
           range_lists(i, row, display_columns, filter_columns, min_value, max_value)))

\* _handle_range_query (lines 884-927)
_handle_range_query(display_metric, filter_metric, min_value, max_value) ==
  With(primary, LAMBDA i :
    range_on(i, display_metric, filter_metric, min_value, max_value,
             columns_on(display_metric, i), columns_on(filter_metric, i)))

\* metric_mappings.get(key, key)
mappings_get(key) ==
  With({k \in 1..Len(metric_mappings) : metric_mappings[k][1] = key},
       LAMBDA hits : IF hits = {} THEN key ELSE metric_mappings[Min(hits)][2])

\* lines 204-209, for the matches found
header_sheets(metric, matches) ==
  IF matches # <<>>
  THEN R("metric_without_definition", metric, <<>>,
         [k \in 1..Len(matches) |-> Item("sheet", matches[k].name, <<>>, None, 0, 1, <<>>)],
         NoAvg, "none")
  ELSE R("no_definition", metric, <<>>, <<>>, NoAvg, "none")

\* _define_header (lines 198-209)
_define_header(metric0) ==
  With(mappings_get(strip(remove_char(lower(metric0), "."))), LAMBDA metric :
    IF metric \in metric_definitions
    THEN R("definition", metric, <<>>, <<>>, NoAvg, "none")
    ELSE header_sheets(metric, _find_column_across_sheets(lower(metric))))

(***************************************************************************)
(* FinancialQueryProcessor.process_query (lines 1133-1344).                *)
(***************************************************************************)
\* int(s) for a str of digits
RECURSIVE nat_of(_)
nat_of(s) ==
  IF s = <<>> THEN 0
  ELSE 10 * nat_of(SubSeq(s, 1, Len(s) - 1))
       + (CHOOSE d \in 0..9 : DigitChars[d + 1] = s[Len(s)])

\* float() of the pieces of a str of digits around its dots, in hundredths
\* (two decimals are kept); ok is FALSE for a ValueError
float_of(parts) ==
  IF Len(parts) > 2 \/ (Len(parts) = 1 /\ parts[1] = <<>>)
     \/ (Len(parts) = 2 /\ parts[1] = <<>> /\ parts[2] = <<>>)
  THEN [ok |-> FALSE, v |-> 0]
  ELSE [ok |-> TRUE,
        v  |-> 100 * nat_of(parts[1])
               + (IF Len(parts) = 2 THEN nat_of(SubSeq(parts[2] \o <<"0","0">>, 1, 2)) ELSE 0)]

\* float(s) for s matched by [\d\.]+
parse_float(s) == float_of(split(s, <<".">>))

\* the pair (branch taken, value returned)
Taken(path, out) == [path |-> path, out |-> out]

\* a variant that answers with a chart
sorry_with_chart == R("sorry", <<>>, <<>>, <<>>, NoAvg, "fig")

\* lines 1343-1344: the answer to a query that matches no pattern
Sorry == R("sorry", <<>>, <<>>, <<>>, NoAvg, "none")

\* group k of the match of a pattern
group(m, name, k) == m[name].groups[k]

\* self._normalize_metric(match.group(k).strip())
metric_of(m, name, k) == _normalize_metric(strip(m[name].groups[k].s))

\* lines 1176-1180
range_branch(display_metric, filter_metric, min_value, max_value) ==
  IF min_value.ok /\ max_value.ok
  THEN _handle_range_query(display_metric, filter_metric, min_value.v, max_value.v)
  ELSE R("invalid_range_values", <<>>, <<>>, <<>>, NoAvg, "none")

\* the comparison patterns in the order they are tried (lines 1183-1249)
comparison_form(m) ==
  IF m["compare_sectors"].matched THEN "compare_sectors"
  ELSE IF m["compare_mixed"].matched THEN "compare_mixed"
  ELSE IF m["stock_vs_sector"].matched THEN "stock_vs_sector"
  ELSE IF m["sector_vs_sector"].matched THEN "sector_vs_sector"
  ELSE "none"

Company(name) == [name |-> strip(upper(name)), type |-> "company"]
Sector(name)  == [name |-> strip(upper(name)), type |-> "sector"]

\* the entity list of a comparison
entities_of(form, g) ==
  CASE form = "compare_mixed"   -> <<Company(g[1].s), Company(g[2].s), Sector(g[3].s)>>
    [] form = "stock_vs_sector" -> <<Company(g[1].s), Sector(g[2].s)>>
    [] OTHER                    -> <<Sector(g[1].s), Sector(g[2].s)>>

\* lines 1190-1197 and their copies: validate the entities, then compare
compare_entities(entities, metric, not_found_kind) ==
  With(SelectSeq(entities, LAMBDA e : ~_validate_entity(e.name, e.type = "company")),
       LAMBDA invalid_entities :
    IF invalid_entities # <<>>
    THEN R(not_found_kind, <<>>, <<>>,
           [k \in 1..Len(invalid_entities) |->
              Item("not_found", invalid_entities[k].name, <<>>, None, 0, 1, <<>>)],
           NoAvg, "none")
    ELSE _compare_mixed_entities(entities, _normalize_metric(strip(metric))))

comparison_branch(form, g) ==
  compare_entities(entities_of(form, g), Last(g).s,
                   IF form \in {"compare_sectors", "sector_vs_sector"}
                   THEN "sectors_not_found" ELSE "entities_not_found")

\* lines 1258-1265: the stock codes of a comparison
stock_codes(parts) ==
  [k \in 1..Len(parts) |-> split(upper(strip(parts[k])), <<".">>)[1]]

\* lines 1255-1268
compare_stocks_branch(g) ==
  _compare_stocks(stock_codes(split(strip(g[1].s), <<",">>)),
                  _normalize_metric(IF truthy(g[2]) THEN strip(g[2].s) ELSE <<"P","/","E">>))

\* lines 1276-1286
sector_branch(sector, metric) ==
  IF sector = upper(AllSectors) THEN _handle_sector_metric(AllSectors, metric)
  ELSE IF ~_validate_entity(sector, FALSE)
  THEN R("sector_not_in_any_sheet", sector, <<>>, <<>>, NoAvg, "none")
  ELSE _handle_sector_metric(sector, metric)

\* lines 1291-1296
multi_sheet_branch(m) ==
  IF ~_validate_entity(group(m, "multi_sheet", 5).s, TRUE)
  THEN R("company_not_in_any_sheet", group(m, "multi_sheet", 5).s, <<>>, <<>>, NoAvg, "none")
  ELSE _handle_multi_sheet_query(
         group(m, "multi_sheet", 5).s,
         << <<metric_of(m, "multi_sheet", 1), group(m, "multi_sheet", 2).s>>,
            <<metric_of(m, "multi_sheet", 3), group(m, "multi_sheet", 4).s>> >>)

\* line 1303: the metrics of 'M1 and M2 for C'
metrics_of(parts) == [k \in 1..Len(parts) |-> _normalize_metric(strip(parts[k]))]

\* lines 1304-1306 and 1313-1315
company_branch(code, metrics) ==
  IF ~_validate_entity(code, TRUE)
  THEN R("company_not_in_any_sheet", code, <<>>, <<>>, NoAvg, "none")
  ELSE _handle_company_multi_metric(code, metrics)

\* line 1299
is_multi_metric(nq) == contains(nq, <<" ","a","n","d"," ">>) /\ contains(nq, <<" ","f","o","r"," ">>)

\* lines 1323-1331.  Line 1330 reads group 1 of best_stock_match, which is
\* None whenever the best-sector branch is reached.
best_sector_branch(g) ==
  IF truthy(g[1]) THEN Raise("AttributeError") ELSE _find_best_sector(None)

\* the branches in the order of the code, for the normalized query nq and the
\* matches m of the patterns
dispatch(nq, m) ==
  IF m["lowest_metric"].matched
  THEN Taken("lowest", _find_lowest_metric_value(metric_of(m, "lowest_metric", 1)))
  ELSE IF m["highest_metric"].matched
  THEN Taken("highest", _find_highest_metric_value(metric_of(m, "highest_metric", 1)))
  ELSE IF m["range"].matched
  THEN Taken("range", range_branch(metric_of(m, "range", 1), metric_of(m, "range", 2),
                                   parse_float(group(m, "range", 3).s),
                                   parse_float(group(m, "range", 4).s)))
  ELSE IF comparison_form(m) # "none"
  THEN Taken(comparison_form(m),
             comparison_branch(comparison_form(m), m[comparison_form(m)].groups))
  ELSE IF m["compare_stocks"].matched
  THEN Taken("compare_stocks", compare_stocks_branch(m["compare_stocks"].groups))
  ELSE IF m["sector"].matched
  THEN Taken("sector", sector_branch(strip(upper(group(m, "sector", 2).s)),
                                     metric_of(m, "sector", 1)))
  ELSE IF m["multi_sheet"].matched
  THEN Taken("multi_sheet", multi_sheet_branch(m))
  ELSE IF m["multi_metric"].matched
  THEN Taken(IF is_multi_metric(nq) THEN "multi_metric" ELSE "single_metric",
             company_branch(group(m, "multi_metric", 2).s,
               IF is_multi_metric(nq)
               THEN metrics_of(split(group(m, "multi_metric", 1).s, <<" ","a","n","d"," ">>))
               ELSE <<metric_of(m, "multi_metric", 1)>>))
  ELSE IF m["define"].matched
  THEN Taken("define", _define_header(metric_of(m, "define", 1)))
  ELSE IF m["best_stock"].matched
  THEN Taken("best_stock",
             _find_best_stock(IF truthy(group(m, "best_stock", 1))
                              THEN Str(metric_of(m, "best_stock", 1)) ELSE None))
  ELSE IF m["best_sector"].matched
  THEN Taken("best_sector", best_sector_branch(m["best_sector"].groups))
  ELSE IF m["best_metric"].matched
  THEN Taken("best_metric", _find_best_metric_value(metric_of(m, "best_metric", 1)))
  ELSE IF m["general"].matched
  THEN Taken("general", _handle_general_metric(metric_of(m, "general", 1)))
  ELSE Taken("unrecognized", Sorry)

\* process_query: query.strip().lower(), then the patterns
process_query(q) == dispatch(normalized_query(q), Matches[q])

(***************************************************************************)
(* FinancialQueryProcessor.process_structured_query (lines 1082-1131).  A  *)
(* query dict is a record of all the keys; a key that the dict lacks holds *)
(* None.                                                                   *)
(***************************************************************************)
\* query_dict.get(key, default) for a str value
get_str(v, default) == IF v = None THEN default ELSE v.s

QueryDict(type, company, metrics, sector, metric, criteria, stocks, pairs, entities) ==
  [type |-> type, company |-> company, metrics |-> metrics, sector |-> sector,
   metric |-> metric, criteria |-> criteria, stocks |-> stocks,
   metric_sheet_pairs |-> pairs, entities |-> entities]

\* lines 1106-1111
structured_compare_stocks(stocks, metric) ==
  With(SelectSeq(stocks, LAMBDA x : ~_validate_entity(x, TRUE)), LAMBDA invalid_stocks :
    IF invalid_stocks # <<>>
    THEN R("companies_not_found", <<>>, <<>>,
           [k \in 1..Len(invalid_stocks) |->
              Item("not_found", invalid_stocks[k], <<>>, None, 0, 1, <<>>)],
           NoAvg, "none")
    ELSE _compare_stocks(stocks, metric))

\* lines 1118-1130: the names are upper-cased for the validation only
structured_compare_mixed(entities, metric) ==
  With(SelectSeq(entities, LAMBDA e :
         e.type \in {"company", "sector"}
         /\ ~_validate_entity(strip(upper(e.name)), e.type = "company")),
       LAMBDA invalid_entities :
    IF invalid_entities # <<>>
    THEN R("entities_not_found", <<>>, <<>>,
           [k \in 1..Len(invalid_entities) |->
              Item("not_found", strip(upper(invalid_entities[k].name)), <<>>, None, 0, 1, <<>>)],
           NoAvg, "none")
    ELSE _compare_mixed_entities(entities, metric))

\* lines 1086-1089 and 1113-1116: the company of the dict, validated
structured_company(company, found(_)) ==
  IF ~_validate_entity(company, TRUE)
  THEN R("company_not_in_any_sheet", company, <<>>, <<>>, NoAvg, "none")
  ELSE found(company)

\* lines 1084-1131
process_structured_query(d) ==
  CASE d.type = "company" ->
         structured_company(strip(upper(get_str(d.company, <<>>))),
           LAMBDA company : _handle_company_multi_metric(company, d.metrics))
    [] d.type = "sector" ->
         With(strip(upper(get_str(d.sector, <<>>))), LAMBDA sector :
           IF ~_validate_entity(sector, FALSE)
           THEN R("sector_not_in_any_sheet", sector, <<>>, <<>>, NoAvg, "none")
           ELSE _handle_sector_metric(sector, get_str(d.metric, <<>>)))
    [] d.type = "general"     -> _handle_general_metric(get_str(d.metric, <<>>))
    [] d.type = "definition"  -> _define_header(get_str(d.metric, <<>>))
    [] d.type = "best_stock"  -> _find_best_stock(d.criteria)
    [] d.type = "best_sector" -> _find_best_sector(d.criteria)
    [] d.type = "best_metric" -> _find_best_metric_value(get_str(d.metric, <<>>))
    [] d.type = "compare_stocks" ->
         structured_compare_stocks([k \in 1..Len(d.stocks) |-> strip(upper(d.stocks[k]))],
                                   get_str(d.metric, <<"P","/","E">>))
    [] d.type = "multi_sheet" ->
         structured_company(strip(upper(get_str(d.company, <<>>))),
           LAMBDA company : _handle_multi_sheet_query(company, d.metric_sheet_pairs))
    [] d.type = "compare_mixed" ->
         structured_compare_mixed(d.entities, get_str(d.metric, <<"P","/","E">>))
    [] OTHER -> R("invalid_query_structure", <<>>, <<>>, <<>>, NoAvg, "none")

(***************************************************************************)
(* The calls made on a loaded processor, one at a time.  A call changes no  *)
(* field of the processor; `call` and `result` record the call and what it *)
(* returned until it is handed back to the caller.                         *)
(***************************************************************************)
\* the arguments of the direct calls
Codes == {<<"A","B","L">>, <<"A","B","L",".","N","0","0","0","0">>, <<"B","O","C",".","N","0","0","0","0">>, <<"X","Y","Z",".","N","0","0","0","0">>, <<"C","O","M","B">>}
Metrics == {<<"P","/","E">>, <<"D","i","v"," ","Y","i","e","l","d">>, <<"P","B","V">>}
RangeBounds == {500, 800}

\* the query dicts given to process_structured_query
StructuredQueries ==
  {QueryDict("company", Str(<<"a","b","l">>), <<<<"P","/","E">>, <<"P","B","V">>>>, None, None, None, <<>>, <<>>, <<>>),
   QueryDict("company", Str(<<"x","y","z">>), <<<<"P","/","E">>>>, None, None, None, <<>>, <<>>, <<>>),
   QueryDict("sector", None, <<>>, Str(<<"b","a","n","k","s">>), Str(<<"D","i","v"," ","Y","i","e","l","d">>), None, <<>>, <<>>, <<>>),
   QueryDict("general", None, <<>>, None, Str(<<"P","/","E">>), None, <<>>, <<>>, <<>>),
   QueryDict("definition", None, <<>>, None, Str(<<"P","B","V">>), None, <<>>, <<>>, <<>>),
   QueryDict("best_stock", None, <<>>, None, None, None, <<>>, <<>>, <<>>),
   QueryDict("best_sector", None, <<>>, None, None, None, <<>>, <<>>, <<>>),
   QueryDict("best_metric", None, <<>>, None, Str(<<"P","B","V">>), None, <<>>, <<>>, <<>>),
   QueryDict("compare_stocks", None, <<>>, None, None, None, <<<<"a","b","l">>, <<"B","O","C">>>>, <<>>, <<>>),
   QueryDict("multi_sheet", Str(<<"A","B","L">>), <<>>, None, None, None, <<>>,
             << <<<<"P","/","E">>, MainTitle>>, <<<<"P","/","E">>, OtherTitle>> >>, <<>>),
   QueryDict("compare_mixed", None, <<>>, None, Str(<<"P","B","V">>), None, <<>>, <<>>,
             <<[name |-> <<"a","b","l">>, type |-> "company"],
               [name |-> <<"B","A","N","K","S">>, type |-> "sector"]>>),
   QueryDict("", None, <<>>, None, None, None, <<>>, <<>>, <<>>)}

\* a variant that takes the first data row of the primary sheet off the list
\* as it answers
structured_query_consuming ==
  /\ pc = "ready"
  /\ \E d \in StructuredQueries :
       /\ call' = [op |-> "process_structured_query", d |-> d]
       /\ result' = process_structured_query(d)
  /\ sheet_info' = [sheet_info EXCEPT ![primary_sheet].data_rows =
                                         IF @ = <<>> THEN @ ELSE Tail(@)]
  /\ pc' = "called"
  /\ UNCHANGED <<wb, primary_sheet>>

\* process_structured_query(query_dict)
ProcessStructuredQuery ==
  /\ pc = "ready"
  /\ \E d \in StructuredQueries :
       /\ call' = [op |-> "process_structured_query", d |-> d]
       /\ result' = process_structured_query(d)
  /\ pc' = "called"
  /\ UNCHANGED <<wb, sheet_info, primary_sheet>>

\* process_query(query)
ProcessQuery ==
  /\ pc = "ready"
  /\ \E q \in Queries :
       \E r \in {process_query(q)} :
          /\ call' = [op |-> "process_query", q |-> q, path |-> r.path]
          /\ result' = r.out
  /\ pc' = "called"
  /\ UNCHANGED <<wb, sheet_info, primary_sheet>>

\* _find_company(sheet_name, code)
FindCompany ==
  /\ pc = "ready"
  /\ \E i \in 1..Len(sheet_info), code \in Codes :
       /\ call' = [op |-> "_find_company", sheet |-> i, code |-> code]
       /\ result' = [kind |-> "row", row |-> _find_company(i, code)]
  /\ pc' = "called"
  /\ UNCHANGED <<wb, sheet_info, primary_sheet>>

\* _find_lowest_metric_value(metric)
FindLowest ==
  /\ pc = "ready"
  /\ \E metric \in Metrics :
       /\ call' = [op |-> "_find_lowest_metric_value", metric |-> metric]
       /\ result' = _find_lowest_metric_value(metric)
  /\ pc' = "called"
  /\ UNCHANGED <<wb, sheet_info, primary_sheet>>

\* _find_highest_metric_value(metric)
FindHighest ==
  /\ pc = "ready"
  /\ \E metric \in Metrics :
       /\ call' = [op |-> "_find_highest_metric_value", metric |-> metric]
       /\ result' = _find_highest_metric_value(metric)
  /\ pc' = "called"
  /\ UNCHANGED <<wb, sheet_info, primary_sheet>>

\* _handle_general_metric(metric)
HandleGeneralMetric ==
  /\ pc = "ready"
  /\ \E metric \in Metrics :
       /\ call' = [op |-> "_handle_general_metric", metric |-> metric]
       /\ result' = _handle_general_metric(metric)
  /\ pc' = "called"
  /\ UNCHANGED <<wb, sheet_info, primary_sheet>>

\* _handle_sector_metric(sector, metric)
HandleSectorMetric ==
  /\ pc = "ready"
  /\ \E metric \in Metrics :
       /\ call' = [op |-> "_handle_sector_metric", sector |-> <<"B","A","N","K","S">>, metric |-> metric]
       /\ result' = _handle_sector_metric(<<"B","A","N","K","S">>, metric)
  /\ pc' = "called"
  /\ UNCHANGED <<wb, sheet_info, primary_sheet>>

\* _handle_sector_metric('all sectors', metric)
HandleAllSectors ==
  /\ pc = "ready"
  /\ \E metric \in Metrics :
       /\ call' = [op |-> "_handle_sector_metric:all", sector |-> AllSectors, metric |-> metric]
       /\ result' = _handle_sector_metric(AllSectors, metric)
  /\ pc' = "called"
  /\ UNCHANGED <<wb, sheet_info, primary_sheet>>

\* _handle_range_query(display_metric, filter_metric, min_value, max_value)
HandleRangeQuery ==
  /\ pc = "ready"
  /\ \E display_metric \in {<<"D","i","v"," ","Y","i","e","l","d">>, <<"P","B","V">>}, min_value, max_value \in RangeBounds :
       /\ call' = [op |-> "_handle_range_query", display_metric |-> display_metric,
                   filter_metric |-> <<"P","/","E">>, min_value |-> min_value,
                   max_value |-> max_value]
       /\ result' = _handle_range_query(display_metric, <<"P","/","E">>, min_value, max_value)
  /\ pc' = "called"
  /\ UNCHANGED <<wb, sheet_info, primary_sheet>>

\* the arguments of the calls on the rows
Criteria == {None, Str(<<"P","/","E">>)}
SectorCodes == {<<"B","A","N","K","S">>, <<"b","a","n","k","s">>, <<" ","B","a","n","k","s"," ">>, <<"B","A","N","K">>, <<"M","O","T","O","R","S">>}

\* _find_best_stock(criteria)
FindBestStock ==
  /\ pc = "ready"
  /\ \E criteria \in Criteria :
       /\ call' = [op |-> "_find_best_stock", criteria |-> criteria]
       /\ result' = _find_best_stock(criteria)
  /\ pc' = "called"
  /\ UNCHANGED <<wb, sheet_info, primary_sheet>>

\* _get_sector_rows(sheet_name, sector_code)
GetSectorRows ==
  /\ pc = "ready"
  /\ \E i \in 1..Len(sheet_info), sector_code \in SectorCodes :
       /\ call' = [op |-> "_get_sector_rows", sheet |-> i, sector_code |-> sector_code]
       /\ result' = [kind |-> "rows", rows |-> _get_sector_rows(i, sector_code)]
  /\ pc' = "called"
  /\ UNCHANGED <<wb, sheet_info, primary_sheet>>

\* the names given to _validate_entity
EntityNames ==
  {<<"A","B","L">>, <<"A","B","L",".","N","0","0","0","0">>, <<"B","O","C">>, <<"c","o","m","b">>, <<"B","A","N","K","S">>, <<"M","O","T","O","R","S">>, <<"X","Y","Z">>}

\* _validate_entity(entity, is_company)
ValidateEntity ==
  /\ pc = "ready"
  /\ \E entity \in EntityNames, is_company \in BOOLEAN :
       /\ call' = [op |-> "_validate_entity", entity |-> entity, is_company |-> is_company]
       /\ result' = [kind |-> "bool", value |-> _validate_entity(entity, is_company)]
  /\ pc' = "called"
  /\ UNCHANGED <<wb, sheet_info, primary_sheet>>

NextRows == Load \/ FindBestStock \/ GetSectorRows \/ ValidateEntity \/ Return

SpecRows == InitRows /\ [][NextRows]_vars

\* the keywords of the direct calls of _find_column_across_sheets
Keywords ==
  {<<"P","/","E">>, <<"P","E">>, <<"p"," ","e">>, <<"c","p","r","i","c","e">>, <<"C"," ","P","r","i","c","e">>, <<"D","i","v"," ","Y","i","e","l","d">>, CODE}

\* _find_column_across_sheets(keyword)
FindColumn ==
  /\ pc = "ready"
  /\ \E keyword \in Keywords :
       /\ call' = [op |-> "_find_column_across_sheets", keyword |-> keyword]
       /\ result' = [kind |-> "matches", matches |-> _find_column_across_sheets(keyword)]
  /\ pc' = "called"
  /\ UNCHANGED <<wb, sheet_info, primary_sheet>>

NextHeaders == Load \/ FindColumn \/ Return

SpecHeaders == InitHeaders /\ [][NextHeaders]_vars

Next ==
  \/ Load
  \/ ProcessQuery
  \/ ProcessStructuredQuery
  \/ FindCompany
  \/ FindLowest
  \/ FindHighest
  \/ HandleGeneralMetric
  \/ HandleSectorMetric
  \/ HandleAllSectors
  \/ HandleRangeQuery
  \/ ValidateEntity
  \/ Return

Spec == Init /\ [][Next]_vars

(***************************************************************************)
(* Properties of the calls.  They are stated on the workbook itself: the   *)
(* cells, the header labels and the data rows of the primary sheet.        *)
(***************************************************************************)
\* a call of op has returned
Called(op) == pc = "called" /\ call.op = op

\* the data rows of sheet i as a set
DataRowSet(i) == Range(sheet_info[i].data_rows)

\* the text of the primary-key cell of a row of sheet i, stripped
KeyText(i, row) ==
  LET v == pk_cell(i, row) IN IF is_str(v) THEN strip(v.s) ELSE <<>>

\* the labels of column col of the primary sheet, top level first
Labels(col) ==
  hierarchy(wb[primary_sheet], sheet_info[primary_sheet].header_rows, col)

\* the columns of the primary sheet whose top-level label is M
ColumnsOf(M) ==
  {col \in 1..wb[primary_sheet].max_column : Labels(col) # <<>> /\ Labels(col)[1] = M}

\* the line of a point answer for a cell of the primary sheet:
\* '<sheet> - <label>: <value>', N/A for a blank cell
PointLine(row, col) ==
  LET v == cell(wb[primary_sheet], row, col)
  IN wb[primary_sheet].title \o <<" ","-"," ">> \o Last(Labels(col)) \o <<":"," ">>
       \o (IF v.t = "none" THEN NA ELSE py_str(v))

\* the result shows the value of every column of M at the row
ShowsRow(row, M) ==
  /\ result.kind = "data_for_company"
  /\ \A col \in ColumnsOf(M) :
       \E k \in 1..Len(result.items) :
          /\ result.items[k].tag = "value"
          /\ result.items[k].line = PointLine(row, col)

\* the numeric cells of the columns of M in a set of rows, as <<row, col>>
NumericCells(rows, M) ==
  {rc \in rows \X ColumnsOf(M) : is_number(cell(wb[primary_sheet], rc[1], rc[2]))}

\* the sum of a set of numeric cells
RECURSIVE SumOver(_)
SumOver(cells) ==
  IF cells = {} THEN 0
  ELSE LET rc == CHOOSE x \in cells : TRUE
       IN cell(wb[primary_sheet], rc[1], rc[2]).n + SumOver(cells \ {rc})

\* avg is the mean of a non-empty set of numeric cells
IsMeanOf(avg, cells) ==
  avg.d > 0 /\ avg.n * Cardinality(cells) = SumOver(cells) * avg.d

\* C1: after a successful load, process_query returns a result for every
\* query text and never raises.
C1_NeverRaises ==
  Called("process_query") => result.kind # "raise"

\* the point queries 'M for C' of the model
PointCases ==
  {[q |-> Q_point,       M |-> <<"P","/","E">>,       C |-> <<"A","B","L">>],
   [q |-> Q_point_ext,   M |-> <<"P","/","E">>,       C |-> <<"A","B","L",".","N","0","0","0","0">>],
   [q |-> Q_point_na,    M |-> <<"P","B","V">>,       C |-> <<"B","O","C">>],
   [q |-> Q_point_lower, M |-> <<"D","i","v"," ","Y","i","e","l","d">>, C |-> <<"c","o","m","b">>]}

\* C4: for a query 'M for C', M the top-level label of a header and C the
\* primary-key text of a data row, the result contains the line
\* '<header label>: <raw cell value>' of the cell at C's row in each column
\* of M, with N/A for a blank cell.
C4_PointQuery ==
  \A p \in PointCases :
    (Called("process_query") /\ call.q = p.q) =>
      \A row \in DataRowSet(primary_sheet) :
        KeyText(primary_sheet, row) = p.C => ShowsRow(row, p.M)

\* C5: for 'average Div Yield for sector BANKS', BANKS a recorded sector
\* whose member rows hold numeric Div Yield values, the result reports the
\* mean of those values for the metric Div Yield.
C5_SectorAverage ==
  (Called("process_query") /\ call.q = Q_sector_avg) =>
    LET members == Range(_get_sector_rows(primary_sheet, <<"B","A","N","K","S">>))
        cells   == NumericCells(members, <<"D","i","v"," ","Y","i","e","l","d">>)
    IN cells # {} =>
         /\ result.kind = "sector_metric"
         /\ result.a = <<"D","i","v"," ","Y","i","e","l","d">>
         /\ IsMeanOf(result.avg, cells)

\* C6: the general average of a metric and the average of a sector are taken
\* over exactly the numeric cells of the metric's columns in all rows of the
\* data-row set (all data rows, or the sector's data rows); the no-data
\* outcome is returned exactly when there is no such cell.
C6_AverageOverNumericCells ==
  /\ Called("_handle_general_metric") =>
       LET cells == NumericCells(DataRowSet(primary_sheet), call.metric)
       IN IF cells = {} THEN result.kind = "no_numerical_data"
          ELSE result.kind = "general_metric" /\ IsMeanOf(result.avg, cells)
  /\ Called("_handle_sector_metric") =>
       LET members == Range(_get_sector_rows(primary_sheet, call.sector))
           cells   == NumericCells(members, call.metric)
       IN IF cells = {} THEN result.kind = "sector_or_data_not_found"
          ELSE result.kind = "sector_metric" /\ IsMeanOf(result.avg, cells)

\* the numeric cells of the metric in the rows that have a code, in data-row
\* order (and column order within a row)
RankedCells(M) ==
  LET rows == sheet_info[primary_sheet].data_rows
      cols == sorted_list(ColumnsOf(M))
      all  == flatten([k \in 1..Len(rows) |-> [j \in 1..Len(cols) |-> <<rows[k], cols[j]>>]])
  IN SelectSeq(all, LAMBDA rc :
       /\ truthy(pk_cell(primary_sheet, rc[1]))
       /\ is_number(cell(wb[primary_sheet], rc[1], rc[2])))

\* items are the cells pos[f[1]], pos[f[2]], ... : distinct cells, in the
\* order of the ranking, equal values in the order of pos, and no omitted
\* cell more extreme than a returned one
IsRanking(items, pos, f, lowest) ==
  LET val(j) == cell(wb[primary_sheet], pos[j][1], pos[j][2]).n
      ord(x, y) == IF lowest THEN x <= y ELSE x >= y
  IN /\ \A p \in DOMAIN f :
          /\ items[p].e = KeyText(primary_sheet, pos[f[p]][1])
          /\ items[p].n = val(f[p]) /\ items[p].d = 1
     /\ \A p, q \in DOMAIN f :
          p < q => /\ f[p] # f[q]
                   /\ ord(val(f[p]), val(f[q]))
                   /\ val(f[p]) = val(f[q]) => f[p] < f[q]
     /\ \A j \in 1..Len(pos) :
          (\A p \in DOMAIN f : f[p] # j) => \A p \in DOMAIN f : ord(val(f[p]), val(j))

\* C7: _find_lowest_metric_value returns the pairs in ascending order of
\* value and _find_highest_metric_value in descending order; each returns
\* exactly min(3, n) of the n numeric pairs, no omitted pair is more extreme
\* than a returned one, and pairs of equal value come in data-row order.
C7_Ranking ==
  (pc = "called" /\ call.op \in {"_find_lowest_metric_value", "_find_highest_metric_value"}) =>
    LET lowest == call.op = "_find_lowest_metric_value"
        pos    == RankedCells(call.metric)
        count  == IF Len(pos) < 3 THEN Len(pos) ELSE 3
    IN IF pos = <<>> THEN result.kind = "no_valid_data"
       ELSE /\ result.kind = (IF lowest THEN "lowest" ELSE "highest")
            /\ Len(result.items) = count
            /\ \E f \in [1..count -> 1..Len(pos)] : IsRanking(result.items, pos, f, lowest)

\* the highest values of a metric with more than three pairs, two of the
\* returned pairs of equal value and of different companies
C7_Witness ==
  /\ Called("_find_highest_metric_value")
  /\ Len(RankedCells(call.metric)) > 3
  /\ result.kind = "highest"
  /\ \E p, q \in 1..Len(result.items) :
       /\ p < q
       /\ result.items[p].n = result.items[q].n
       /\ result.items[p].e # result.items[q].e

\* the rows of sheet i whose primary-key text is exactly code
RowsOfCode(i, code) == {r \in DataRowSet(i) : KeyText(i, r) = code}

\* the row an extended code has to resolve to on sheet i: a row of the
\* extended code when there is one, else a row of the bare code
ResolvesTo(i, code) ==
  IF RowsOfCode(i, code) # {} THEN RowsOfCode(i, code)
  ELSE RowsOfCode(i, split(code, <<".">>)[1])

\* C8: an extended code X.EXT resolves to the row whose primary-key text is
\* X.EXT when there is one, and to the row of the bare code X when only X
\* exists, both for _find_company and for the query 'P/E for ABL.N0000'.
C8_CodeFallback ==
  /\ (Called("_find_company") /\ contains(call.code, <<".">>)
        /\ ResolvesTo(call.sheet, call.code) # {}) =>
       result.row \in ResolvesTo(call.sheet, call.code)
  /\ (Called("process_query") /\ call.q = Q_point_ext
        /\ ResolvesTo(primary_sheet, <<"A","B","L",".","N","0","0","0","0">>) # {}) =>
       \E row \in ResolvesTo(primary_sheet, <<"A","B","L",".","N","0","0","0","0">>) : ShowsRow(row, <<"P","/","E">>)

\* the query texts that match none of the patterns
Unrecognized == {q \in Queries : \A name \in PatternNames : ~Matches[q][name].matched}

\* C9: a query that matches none of the patterns gets the fixed 'Sorry'
\* answer with no chart and no exception; the answer holds nothing read from
\* the workbook (it is the same on every workbook).
C9_Unrecognized ==
  (Called("process_query") /\ call.q \in Unrecognized) =>
    /\ call.path = "unrecognized"
    /\ result.kind = "sorry"
    /\ result.chart = "none"
    /\ result.a = <<>> /\ result.b = <<>> /\ result.items = <<>>

\* the query 'xyz123' has been answered
C9_Witness ==
  /\ Called("process_query")
  /\ call.q = Q_unknown
  /\ call.q \in Unrecognized
  /\ result.kind = "sorry"

\* the first numeric value of a row among the columns of M, None without one
FirstNumber(row, M) ==
  LET nums == {col \in ColumnsOf(M) : is_number(cell(wb[primary_sheet], row, col))}
  IN IF nums = {} THEN None ELSE cell(wb[primary_sheet], row, Min(nums))

\* the code of the row validates as a company: its upper-cased text is found
\* by _find_company on some sheet
ResolvesAsCompany(row) ==
  LET code == pk_cell(primary_sheet, row)
  IN /\ is_str(code) /\ code.s # <<>>
     /\ \E i \in 1..Len(sheet_info) : _find_company(i, strip(upper(code.s))) # 0

\* a data row qualifies: valid company, filter value numeric within the
\* inclusive bounds (in hundredths), display value numeric
Qualifies(row) ==
  LET fv == FirstNumber(row, call.filter_metric)
  IN /\ ResolvesAsCompany(row)
     /\ is_number(fv)
     /\ call.min_value <= 100 * fv.n /\ 100 * fv.n <= call.max_value
     /\ is_number(FirstNumber(row, call.display_metric))

\* C10: _handle_range_query lists exactly the data rows that qualify, in
\* data-row order, each with its display value; with none (in particular
\* when min > max) it returns the 'No companies found' outcome.
C10_RangeFilter ==
  Called("_handle_range_query") =>
    LET listed == SelectSeq(sheet_info[primary_sheet].data_rows, Qualifies)
    IN /\ IF listed = <<>> THEN result.kind = "no_companies_in_range"
          ELSE /\ result.kind = "companies_in_range"
               /\ Len(result.items) = Len(listed)
               /\ \A k \in 1..Len(listed) :
                    /\ result.items[k].e = pk_cell(primary_sheet, listed[k]).s
                    /\ result.items[k].v = FirstNumber(listed[k], call.display_metric)
       /\ call.min_value > call.max_value => result.kind = "no_companies_in_range"

\* a listed row whose filter value equals the lower bound, another data row
\* with a code left out
C10_Witness ==
  /\ Called("_handle_range_query")
  /\ result.kind = "companies_in_range"
  /\ \E row \in DataRowSet(primary_sheet) :
       Qualifies(row) /\ 100 * FirstNumber(row, call.filter_metric).n = call.min_value
  /\ \E row \in DataRowSet(primary_sheet) :
       truthy(pk_cell(primary_sheet, row)) /\ ~Qualifies(row)

\* the metrics a row needs for _find_best_stock(criteria)
Required(criteria) ==
  IF criteria = None
  THEN {<<"P","/","E">>, <<"D","i","v"," ","Y","i","e","l","d">>, <<"P","B","V">>}
  ELSE {criteria.s}

\* the cell of a row in the first column of M
RequiredCell(row, M) == cell(wb[primary_sheet], row, Min(ColumnsOf(M)))

\* the rows r1, r2 have numbers for the three default metrics, the same for
\* every metric but M, and r1 has the greater M
RaisedOnly(r1, r2, M) ==
  /\ \A X \in Required(None) :
       is_number(RequiredCell(r1, X)) /\ is_number(RequiredCell(r2, X))
  /\ \A X \in Required(None) \ {M} : RequiredCell(r1, X) = RequiredCell(r2, X)
  /\ RequiredCell(r1, M).n > RequiredCell(r2, M).n

\* the scores shown for the code of a row
ScoresOf(row) ==
  {result.items[k].n : k \in {j \in 1..Len(result.items) :
                                 result.items[j].e = KeyText(primary_sheet, row)}}

\* C11: in the composite score of _find_best_stock(None), a default metric of
\* the lower-is-better set (P/E, PBV) has a negative weight and any other
\* (Div Yield) a positive one: of two ranked rows that differ in one metric
\* only, the row with the greater P/E or PBV has no greater score, and the
\* row with the greater Div Yield has no smaller score.
C11_CompositeSign ==
  (Called("_find_best_stock") /\ call.criteria = None /\ result.kind = "top_stocks") =>
    \A r1, r2 \in DataRowSet(primary_sheet) : \A M \in Required(None) :
      RaisedOnly(r1, r2, M) =>
        \A s1 \in ScoresOf(r1), s2 \in ScoresOf(r2) :
          IF is_lower_better(M) THEN s1 <= s2 ELSE s1 >= s2

\* two ranked rows that differ in P/E only
C11_Witness ==
  /\ Called("_find_best_stock") /\ call.criteria = None /\ result.kind = "top_stocks"
  /\ \E r1, r2 \in DataRowSet(primary_sheet) :
       /\ RaisedOnly(r1, r2, <<"P","/","E">>)
       /\ ScoresOf(r1) # {} /\ ScoresOf(r2) # {}

\* a row is a candidate of the ranking: it has a code and a number in the
\* cell of every required metric
Candidate(row) ==
  /\ truthy(pk_cell(primary_sheet, row))
  /\ \A M \in Required(call.criteria) : is_number(RequiredCell(row, M))

\* C12: _find_best_stock ranks exactly the coded data rows that hold a
\* number for every required metric: a row with a blank or non-numeric
\* required cell is never listed, the rows that have them all are the
\* candidates (the best three of them are listed), and 'No valid data found
\* to rank stocks.' is returned exactly when there is no candidate.
C12_CompositeExclusion ==
  Called("_find_best_stock") =>
    LET cand == SelectSeq(sheet_info[primary_sheet].data_rows, Candidate)
    IN IF cand = <<>> THEN result.kind = "no_valid_stock_data"
       ELSE /\ result.kind = "top_stocks"
            /\ Len(result.items) = (IF Len(cand) < 3 THEN Len(cand) ELSE 3)
            /\ \A k \in 1..Len(result.items) :
                 \E j \in 1..Len(cand) :
                    result.items[k].e = KeyText(primary_sheet, cand[j])
            /\ Len(cand) <= 3 =>
                 \A j \in 1..Len(cand) :
                    \E k \in 1..Len(result.items) :
                       result.items[k].e = KeyText(primary_sheet, cand[j])

\* a composite ranking of a sheet with a candidate and with a coded row that
\* lacks a required metric
C12_Witness ==
  /\ Called("_find_best_stock") /\ call.criteria = None
  /\ result.kind = "top_stocks"
  /\ \E row \in DataRowSet(primary_sheet) : Candidate(row)
  /\ \E row \in DataRowSet(primary_sheet) :
       /\ truthy(pk_cell(primary_sheet, row))
       /\ ~Candidate(row)
       /\ is_number(RequiredCell(row, <<"P","/","E">>))

\* the recorded sector markers of sheet i whose label is S, whatever the
\* case (blanks around S aside)
MarkersOf(i, S) ==
  {k \in 1..Len(sheet_info[i].sectors) :
     lower(sheet_info[i].sectors[k].name) = lower(strip(S))}

\* the rows of the recorded markers of sheet i
MarkerRows(i) == {sheet_info[i].sectors[k].row : k \in 1..Len(sheet_info[i].sectors)}

\* the row of the first recorded marker below row m, the row after the sheet
\* end when there is none
NextMarker(i, m) ==
  LET below == {r \in MarkerRows(i) : r > m}
  IN IF below = {} THEN wb[i].max_row + 1 ELSE Min(below)

\* C13: _get_sector_rows(sheet, S) returns the empty list when no recorded
\* sector label equals S whatever the case; otherwise it returns, in row
\* order, exactly the data rows strictly between the (first) marker labelled
\* S and the next recorded marker, or the sheet end.  Every returned row is a
\* member of data_rows.
C13_SectorLookup ==
  Called("_get_sector_rows") =>
    LET i == call.sheet
        hits == MarkersOf(i, call.sector_code)
    IN /\ Range(result.rows) \subseteq DataRowSet(i)
       /\ \A p, q \in 1..Len(result.rows) : p < q => result.rows[p] < result.rows[q]
       /\ IF hits = {} THEN result.rows = <<>>
          ELSE LET m == sheet_info[i].sectors[Min(hits)].row
               IN Range(result.rows) =
                    {r \in DataRowSet(i) : m < r /\ r < NextMarker(i, m)}

\* a label found in another case, with a data row returned, a later marker
\* and a data row below that marker
C13_Witness ==
  /\ Called("_get_sector_rows")
  /\ call.sector_code = <<"b","a","n","k","s">>
  /\ result.rows # <<>>
  /\ \E r \in DataRowSet(call.sheet) :
       /\ r > Last(result.rows)
       /\ \E m \in MarkerRows(call.sheet) : Last(result.rows) < m /\ m < r

\* C16: a call of process_query or process_structured_query changes neither
\* sheet_info (headers, header_rows, sectors, data_rows, primary_key_col of
\* every sheet) nor the workbook (its cell values and dimensions), whatever
\* calls came before; every call is answered from the structure recorded at
\* load.
C16_NoMutation ==
  [][(pc = "ready" /\ call'.op \in {"process_query", "process_structured_query"}) =>
       /\ sheet_info' = sheet_info
       /\ wb' = wb
       /\ primary_sheet' = primary_sheet]_vars

\* a structured query has been answered with values read from the sheets
C16_Witness ==
  /\ Called("process_structured_query")
  /\ result.kind = "data_for_company"
  /\ \E k \in 1..Len(result.items) : result.items[k].tag = "value"

\* the line of a multi-sheet answer for a cell of sheet i:
\* '<sheet> - <label>: <value>', N/A for a blank cell
SheetLine(i, row, col) ==
  LET v == cell(wb[i], row, col)
  IN wb[i].title \o <<" ","-"," ">>
       \o Last(hierarchy(wb[i], sheet_info[i].header_rows, col)) \o <<":"," ">>
       \o (IF v.t = "none" THEN NA ELSE py_str(v))

\* the columns of sheet i whose top-level label is M
SheetColumns(i, M) ==
  {col \in 1..Len(wb[i].cells[1]) :
     LET h == hierarchy(wb[i], sheet_info[i].header_rows, col)
     IN h # <<>> /\ h[1] = M}

\* C17: for 'P/E from Main and P/E from Other for ABL', ABL having a data
\* row on both sheets and P/E being a header of both, the answer is not the
\* 'No data found' outcome and holds, for each (metric, sheet) pair, the line
\* '<sheet> - <header>: <value>' of a P/E cell of ABL's row on that sheet.
C17_MultiSheet ==
  (Called("process_query") /\ call.q = Q_multi_sheet
     /\ \A i \in Sheets : RowsOfCode(i, <<"A","B","L">>) # {}) =>
    /\ result.kind # "no_data_multi_sheet"
    /\ \A i \in Sheets :
         \E row \in RowsOfCode(i, <<"A","B","L">>), col \in SheetColumns(i, <<"P","/","E">>) :
            \E k \in 1..Len(result.items) : result.items[k].line = SheetLine(i, row, col)

\* the multi-sheet query is answered on a workbook with ABL on both sheets
C17_Witness ==
  /\ Called("process_query") /\ call.q = Q_multi_sheet
  /\ call.path = "multi_sheet"
  /\ \A i \in Sheets :
       RowsOfCode(i, <<"A","B","L">>) # {} /\ SheetColumns(i, <<"P","/","E">>) # {}

\* C18: for 'lowest Div Yield', 'highest Div Yield' and 'best Div Yield' the
\* metric given to the ranking is the whole phrase: the answer is the one of
\* _find_lowest_metric_value, _find_highest_metric_value and
\* _find_best_metric_value on 'Div Yield', not 'Metric ... not found' for
\* the first word.
C18_MetricPhrase ==
  Called("process_query") =>
    /\ call.q = Q_lowest_dy =>
         result = _find_lowest_metric_value(<<"D","i","v"," ","Y","i","e","l","d">>)
    /\ call.q = Q_highest =>
         result = _find_highest_metric_value(<<"D","i","v"," ","Y","i","e","l","d">>)
    /\ call.q = Q_best_dy =>
         result = _find_best_metric_value(<<"D","i","v"," ","Y","i","e","l","d">>)

\* one of the three texts is answered on a sheet with a Div Yield number
C18_Witness ==
  /\ Called("process_query")
  /\ call.q \in {Q_lowest_dy, Q_highest, Q_best_dy}
  /\ NumericCells(DataRowSet(primary_sheet), <<"D","i","v"," ","Y","i","e","l","d">>) # {}

\* the branch names of the rankings and of the comparisons
RankingPaths == {"lowest", "highest", "best_metric"}
ComparisonPatterns ==
  {"compare_sectors", "compare_mixed", "stock_vs_sector", "sector_vs_sector", "compare_stocks"}

\* C19: a query text that matches the range pattern is answered by the
\* range branch, also when it holds 'lowest <token>' or 'highest <token>' or
\* matches another pattern.
C19_RangeFirst ==
  (Called("process_query") /\ Matches[call.q]["range"].matched) => call.path = "range"

\* a range text that also holds 'lowest <token>' is answered
C19_Witness ==
  /\ Called("process_query")
  /\ call.q = Q_range_lowest
  /\ Matches[call.q]["range"].matched /\ Matches[call.q]["lowest_metric"].matched

\* C20: a query text that matches 'best M', 'lowest M' or 'highest M' (and
\* not the range pattern) is answered by a comparison branch when it matches
\* a comparison pattern, and otherwise by the ranking, whichever of the
\* later patterns (sector, company, definition, best stock, best sector) it
\* matches as well.
C20_RankingPriority ==
  (Called("process_query") /\ Matches[call.q]["best_metric"].matched
     /\ ~Matches[call.q]["range"].matched) =>
    IF \E name \in ComparisonPatterns : Matches[call.q][name].matched
    THEN call.path \in ComparisonPatterns
    ELSE call.path \in RankingPaths

\* 'best PBV for ABL', which also matches the company pattern, is answered
C20_Witness ==
  /\ Called("process_query")
  /\ call.q = Q_best_for
  /\ Matches[call.q]["best_metric"].matched /\ Matches[call.q]["multi_metric"].matched

\* the query texts of the form 'X vs Y vs sector Z by M' with their entities
MixedForms ==
  {[q |-> Q_mixed, M |-> <<"P","/","E">>,
    e |-> <<Company(<<"A","B","L">>), Company(<<"B","O","C">>), Sector(<<"B","A","N","K","S">>)>>],
   [q |-> Q_mixed_ext, M |-> <<"P","/","E">>,
    e |-> <<Company(<<"A","B","L">>), Company(<<"B","O","C",".","N","0","0","0","0">>),
            Sector(<<"B","A","N","K","S">>)>>],
   [q |-> Q_mixed_bad, M |-> <<"P","B","V">>,
    e |-> <<Company(<<"X","Y","Z">>), Company(<<"B","O","C">>), Sector(<<"F","O","O","D">>)>>]}

\* C21: a query 'X vs Y vs sector Z by M' is answered by the
\* stock-vs-stock-vs-sector branch, never by the two-entity branch that
\* matches its suffix; when one of X, Y, Z fails validation the answer names
\* the invalid entities, and otherwise it is the comparison of exactly
\* company X, company Y and sector Z by M.
C21_ThreeEntities ==
  Called("process_query") =>
    \A f \in MixedForms :
      call.q = f.q =>
        /\ call.path = "compare_mixed"
        /\ LET invalid == SelectSeq(f.e, LAMBDA e : ~_validate_entity(e.name, e.type = "company"))
           IN IF invalid # <<>>
              THEN /\ result.kind = "entities_not_found"
                   /\ [k \in 1..Len(result.items) |-> result.items[k].e]
                        = [k \in 1..Len(invalid) |-> invalid[k].name]
              ELSE result = _compare_mixed_entities(f.e, f.M)

\* a three-entity comparison, which also matches the two-entity pattern, is
\* answered with the values of the three entities
C21_Witness ==
  /\ Called("process_query")
  /\ call.q = Q_mixed
  /\ Matches[call.q]["stock_vs_sector"].matched
  /\ result.kind = "comparison"
  /\ Len(result.items) = 3
  /\ \A k \in 1..3 : result.items[k].tag \in {"company", "sector"}

\* the top-level label of column c of sheet i: the first non-blank label
\* of its header cells, <<>> when the column has none
HeaderTop(i, c) ==
  LET h == hierarchy(wb[i], sheet_info[i].header_rows, c)
  IN IF h = <<>> THEN <<>> ELSE h[1]

HeaderCols(i) == 1..Len(sheet_info[i].headers)

\* the columns of sheet i in the matches returned
MatchedCols(i) ==
  {column_index_from_string(result.matches[k].col) :
     k \in {k \in 1..Len(result.matches) : result.matches[k].sheet = i}}

\* lower case, without '.', '/' and spaces
Canon(s) == remove_char(remove_char(remove_char(lower(strip(s)), "."), "/"), " ")

\* C22: _find_column_across_sheets('P/E') returns, for a sheet with columns
\* whose top-level label is 'P/E', only the one with the lowest index; for a
\* metric that is not the ratio metric it returns every column whose
\* top-level label is the keyword; no (sheet, column) pair is returned twice.
C22_RatioDedup ==
  Called("_find_column_across_sheets") =>
    /\ \A k, l \in 1..Len(result.matches) :
         k # l => <<result.matches[k].sheet, result.matches[k].col>>
                    # <<result.matches[l].sheet, result.matches[l].col>>
    /\ \A i \in 1..Len(sheet_info) :
         LET same == {c \in HeaderCols(i) : lower(HeaderTop(i, c)) = lower(call.keyword)}
         IN IF call.keyword = <<"P","/","E">>
            THEN same # {} => MatchedCols(i) \cap same = {Min(same)}
            ELSE Canon(call.keyword) # <<"p","e">> => same \subseteq MatchedCols(i)

\* 'P/E' is looked up on a workbook with a sheet that has two 'P/E' columns
C22_Witness ==
  /\ Called("_find_column_across_sheets")
  /\ call.keyword = <<"P","/","E">>
  /\ \E i \in 1..Len(sheet_info) :
       Cardinality({c \in HeaderCols(i) : HeaderTop(i, c) = <<"P","/","E">>}) >= 2

\* the four candidates of a keyword
Candidates(keyword) ==
  {keyword, remove_char(keyword, " "), replace_char(keyword, " ", "."),
   split(keyword, <<" ">>)[1]}

\* column c of sheet i has a label and a candidate equals it after
\* canonicalization
CanonMatch(i, c, keyword) ==
  /\ HeaderTop(i, c) # <<>>
  /\ \E t \in Candidates(keyword) : Canon(t) = Canon(HeaderTop(i, c))

\* C23: _find_column_across_sheets returns the columns whose top-level
\* label equals one of the four candidates of the keyword after lower-casing
\* and removing '.', '/' and spaces on both sides (of the columns of the
\* ratio metric, at least the first of the sheet), and no other column.
C23_Canonical ==
  Called("_find_column_across_sheets") =>
    \A i \in 1..Len(sheet_info) : \A c \in HeaderCols(i) :
      /\ c \in MatchedCols(i) => CanonMatch(i, c, call.keyword)
      /\ CanonMatch(i, c, call.keyword) =>
           \/ c \in MatchedCols(i)
           \/ /\ Canon(HeaderTop(i, c)) = <<"p","e">>
              /\ \E d \in MatchedCols(i) : d < c /\ Canon(HeaderTop(i, d)) = <<"p","e">>

\* 'PE' is looked up on a workbook with a 'P/E' column
C23_Witness ==
  /\ Called("_find_column_across_sheets")
  /\ call.keyword = <<"P","E">>
  /\ \E i \in 1..Len(sheet_info) : \E c \in HeaderCols(i) : HeaderTop(i, c) = <<"P","/","E">>

\* the rows of the band of the header's height that starts at row r
BandAt(i, r) == [k \in 1..Len(sheet_info[i].header_rows) |-> r + k - 1]

\* the band that starts at row r of sheet i has the header band's signature
SameSignature(i, r) ==
  extract_header_signature(wb[i], BandAt(i, r))
    = extract_header_signature(wb[i], sheet_info[i].header_rows)

\* C24: find_repeating_headers returns, in ascending order, exactly the
\* rows r with header_rows.last < r <= max_row - 1 whose band has the
\* signature of the header band, a repeat that starts at row max_row - 1
\* included.
C24_RepeatScan ==
  Called("find_repeating_headers") =>
    result.rows =
      sorted_list({r \in (Last(sheet_info[call.sheet].header_rows) + 1)..(wb[call.sheet].max_row - 1) :
                     SameSignature(call.sheet, r)})

\* the header band is repeated from row max_row - 1 on
C24_Witness ==
  /\ Called("find_repeating_headers")
  /\ wb[call.sheet].max_row - 1 > Last(sheet_info[call.sheet].header_rows)
  /\ SameSignature(call.sheet, wb[call.sheet].max_row - 1)

\* a repeat above row max_row - 1 is recorded
C24_FoundWitness ==
  /\ Called("find_repeating_headers")
  /\ result.rows # <<>>

\* the labels of the header of column c of sheet i as sheet_info holds them
LabelsOf(i, c) ==
  IF sheet_info[i].headers[c] = None THEN <<>>
  ELSE split(sheet_info[i].headers[c].s, SepGt)

\* column c of sheet i lies in a merged range that covers the two header
\* rows and whose anchor cell holds a text
MergedOverHeader(i, c) ==
  /\ Len(sheet_info[i].header_rows) = 2
  /\ \E m \in wb[i].merged :
       /\ m[1] <= c /\ c <= m[3]
       /\ m[2] <= sheet_info[i].header_rows[1] /\ sheet_info[i].header_rows[2] <= m[4]
       /\ ~is_blank(cell(wb[i], m[2], m[1]))

\* C25: in every parsed sheet the labels of a column's header are pairwise
\* different (a cell merged over both header rows gives its text once, 'X'
\* and not 'X > X'), and a column without a non-blank header cell has the
\* blank marker.
C25_NoRepeatedLabel ==
  pc = "ready" =>
    \A i \in 1..Len(sheet_info) : \A c \in HeaderCols(i) :
      /\ \A k, l \in 1..Len(LabelsOf(i, c)) : k # l => LabelsOf(i, c)[k] # LabelsOf(i, c)[l]
      /\ (\A k \in 1..Len(sheet_info[i].header_rows) :
            is_blank(get_merged_parent(wb[i], sheet_info[i].header_rows[k], c)))
           => sheet_info[i].headers[c] = None

\* a parsed sheet has a column merged over both header rows
C25_Witness ==
  /\ pc = "ready"
  /\ \E i \in 1..Len(sheet_info) : \E c \in HeaderCols(i) : MergedOverHeader(i, c)

\* a parsed sheet has a column with two different labels and one with none
C25_LabelsWitness ==
  /\ pc = "ready"
  /\ \E i \in 1..Len(sheet_info) :
       /\ \E c \in HeaderCols(i) :
            Len(LabelsOf(i, c)) = 2 /\ LabelsOf(i, c)[1] # LabelsOf(i, c)[2]
       /\ \E c \in HeaderCols(i) : sheet_info[i].headers[c] = None

\* the columns of sheet i with a header label that reads CODE in any case
CodeCols(i) ==
  {c \in HeaderCols(i) :
     \E k \in 1..Len(sheet_info[i].header_rows) :
        LET v == get_merged_parent(wb[i], sheet_info[i].header_rows[k], c)
        IN ~is_blank(v) /\ upper(strip(py_str(v))) = CODE}

\* C26: the primary-key column of a parsed sheet is 'B' exactly when two
\* header columns carry the label CODE (in any case), or one does and it is
\* column 2; it is 'A' in every other case.
C26_PrimaryKeyColumn ==
  pc = "ready" =>
    \A i \in 1..Len(sheet_info) :
      sheet_info[i].primary_key_col =
        IF Cardinality(CodeCols(i)) = 2 \/ CodeCols(i) = {2} THEN "B" ELSE "A"

\* a parsed sheet with exactly two CODE columns has column B as its key
C26_Witness ==
  /\ pc = "ready"
  /\ \E i \in 1..Len(sheet_info) :
       Cardinality(CodeCols(i)) = 2 /\ sheet_info[i].primary_key_col = "B"

\* a parsed sheet whose only CODE column is column 2, written 'Code'
C26_SecondColumnWitness ==
  /\ pc = "ready"
  /\ \E i \in 1..Len(sheet_info) :
       /\ CodeCols(i) = {2}
       /\ HeaderTop(i, 2) = <<"C","o","d","e">>
       /\ sheet_info[i].primary_key_col = "B"

\* row r of the sheet passes the sector test: a text of more than 4
\* characters in column 1 and nothing in column 2
SectorLike(sheet, r) ==
  /\ cell(sheet, r, 1).t = "str"
  /\ Len(strip(cell(sheet, r, 1).s)) > 4
  /\ cell(sheet, r, 2) = None \/ cell(sheet, r, 2) = Str(<<>>)

\* the rows of sheet i below the header band that pass both tests
DoubleRows(i) ==
  {r \in (Last(sheet_info[i].header_rows) + 1)..wb[i].max_row :
     SectorLike(AsParsed(i), r) /\ GlossaryLike(AsParsed(i), r)}

\* the rows glossary detection looks at: neither a repeating-header row nor
\* the row after one
GlossaryCandidate(i, r) == r \notin Range(RepeatingOf(i)) /\ (r - 1) \notin Range(RepeatingOf(i))

\* row r of sheet i lies at or after the glossary boundary, is no sector,
\* and neither it nor a row after it is a data row; it is the boundary when no
\* row before it is one
InGlossary(i, r) ==
  /\ BoundaryOf(AsParsed(i), sheet_info[i].header_rows) \in 1..r
  /\ \A k \in 1..Len(sheet_info[i].sectors) : sheet_info[i].sectors[k].row # r
  /\ \A d \in Range(sheet_info[i].data_rows) : d < r

\* no recorded sector lies at or after the glossary boundary
SectorsBeforeGlossary(i) ==
  BoundaryOf(AsParsed(i), sheet_info[i].header_rows) # 0 =>
    \A k \in 1..Len(sheet_info[i].sectors) :
       sheet_info[i].sectors[k].row < BoundaryOf(AsParsed(i), sheet_info[i].header_rows)

\* C27: in every parsed sheet no recorded sector has a row at or after the
\* glossary boundary, and a row below the header band that passes the sector
\* test and the glossary test, and that glossary detection looks at (it is
\* neither a repeating-header row nor the row after one), lies in the
\* glossary: the boundary is at or before it, it is not recorded as a sector
\* and no row from it on is a data row.
C27_TwoPass ==
  pc = "ready" =>
    \A i \in Sheets :
      /\ SectorsBeforeGlossary(i)
      /\ \A r \in DoubleRows(i) : GlossaryCandidate(i, r) => InGlossary(i, r)

\* C27 as stated, for every row that passes both tests
C27_EveryDoubleRow ==
  pc = "ready" =>
    \A i \in Sheets :
      /\ SectorsBeforeGlossary(i)
      /\ \A r \in DoubleRows(i) : InGlossary(i, r)

\* a row that passes both tests is the glossary boundary of a parsed sheet
\* and a row that passes the sector test lies below it
C27_Witness ==
  /\ pc = "ready"
  /\ \E i \in Sheets : \E r \in DoubleRows(i) :
       /\ BoundaryOf(AsParsed(i), sheet_info[i].header_rows) = r
       /\ \E q \in (r + 1)..wb[i].max_row : SectorLike(AsParsed(i), q)

\* the data rows of sheet i between marker k and the next recorded marker
MembersOf(i, k) ==
  {r \in DataRowSet(i) :
     /\ sheet_info[i].sectors[k].row < r
     /\ r < NextMarker(i, sheet_info[i].sectors[k].row)}

\* some marker of sheet i labelled S has a member row
HasMembers(i, S) == \E k \in MarkersOf(i, S) : MembersOf(i, k) # {}

\* C28: every row that passes the sector test is recorded, markers with a
\* label already seen included; _get_sector_rows(sheet, L) is not empty when
\* a marker labelled L of the sheet has a member row; and _validate_entity
\* accepts L as a sector exactly when a marker labelled L has a member row
\* on some sheet.
C28_DuplicateLabels ==
  /\ pc = "ready" =>
       \A i \in Sheets :
         \A r \in 1..wb[i].max_row : SectorLike(AsParsed(i), r) => r \in MarkerRows(i)
  /\ Called("_get_sector_rows") =>
       (HasMembers(call.sheet, call.sector_code) => result.rows # <<>>)
  /\ (Called("_validate_entity") /\ ~call.is_company) =>
       (result.value <=> \E i \in Sheets : HasMembers(i, call.entity))

\* the rows of a label that has two markers on the sheet, the second with
\* a member row, are asked for
C28_Witness ==
  /\ Called("_get_sector_rows")
  /\ Cardinality(MarkersOf(call.sheet, call.sector_code)) >= 2
  /\ HasMembers(call.sheet, call.sector_code)

\* the labels of the recorded sectors of the primary sheet
SectorNames ==
  {sheet_info[primary_sheet].sectors[k].name : k \in 1..Len(sheet_info[primary_sheet].sectors)}

\* the entries of sector S in the answer for all sectors
AllSectorsEntries(S) ==
  {k \in 1..Len(result.items) : result.items[k].e = S}

\* C29: for every sector S of the primary sheet and metric M, S is listed in
\* the answer of 'M for all sectors' exactly when the single-sector answer
\* for S has an average, and the two averages are equal; also when a member
\* row of S has a blank primary-key cell.
C29_SectorAveragePaths ==
  Called("_handle_sector_metric:all") =>
    \A S \in SectorNames :
      LET one == _handle_sector_metric(S, call.metric)
      IN /\ (AllSectorsEntries(S) # {}) <=> (one.kind = "sector_metric")
         /\ \A k \in AllSectorsEntries(S) :
              one.kind = "sector_metric" =>
                result.items[k].n * one.avg.d = one.avg.n * result.items[k].d

\* the averages of all sectors are asked for, a sector having a member row
\* with numbers of the metric and a blank primary-key cell
C29_Witness ==
  /\ Called("_handle_sector_metric:all")
  /\ result.kind = "all_sectors"
  /\ \E S \in SectorNames :
       \E r \in Range(_get_sector_rows(primary_sheet, S)) :
          /\ KeyText(primary_sheet, r) = <<>>
          /\ NumericCells({r}, call.metric) # {}

\* the data rows of sheet i whose stripped primary-key text is the text
StoredAs(i, text) ==
  {row \in DataRowSet(i) : KeyText(i, row) = text}

\* the text is the stored code of some data row
IsStoredCode(text) ==
  text # <<>> /\ \E i \in 1..Len(sheet_info) : StoredAs(i, text) # {}

\* the query path (upper-casing, then _find_company) resolves the text on
\* some sheet to the first data row that stores it
ResolvesToStored(text) ==
  \E i \in 1..Len(sheet_info) :
     /\ StoredAs(i, text) # {}
     /\ _find_company(i, strip(upper(text))) = Min(StoredAs(i, text))

\* the row passes the range filter but for the validity check of its code
InRangeButForCode(row) ==
  LET fv == FirstNumber(row, call.filter_metric)
  IN /\ KeyText(primary_sheet, row) # <<>>
     /\ is_number(fv)
     /\ call.min_value <= 100 * fv.n /\ 100 * fv.n <= call.max_value
     /\ is_number(FirstNumber(row, call.display_metric))

\* C30: every text stored (stripped) in the primary-key cell of a data row
\* is accepted by _validate_entity as a company and resolved by the query
\* path to the first row that stores it, whatever its letter case; so the
\* range filter lists every data row with a non-blank code whose values
\* pass the filter.
C30_StoredCodesResolve ==
  /\ (Called("_validate_entity") /\ call.is_company /\ IsStoredCode(call.entity)) =>
        (result.value /\ ResolvesToStored(call.entity))
  /\ Called("_handle_range_query") =>
        \A row \in DataRowSet(primary_sheet) :
           InRangeButForCode(row) =>
             \E k \in 1..Len(result.items) :
                result.items[k].e = pk_cell(primary_sheet, row).s

\* _validate_entity is asked for a company whose code is stored in a data
\* row with lower-case letters
C30_Witness ==
  /\ Called("_validate_entity")
  /\ call.is_company
  /\ IsStoredCode(call.entity)
  /\ upper(call.entity) # call.entity

=============================================================================
